---- MODULE Spec2Model ----
(***************************************************************************)
(* Model of the girc event codec (event.go, tags.go) and of the built-in   *)
(* state handlers.  A string is a sequence of one-character strings, an    *)
(* optional pointer (Event.Source, Event.Tags) is the empty sequence when  *)
(* nil and a one-element sequence when set, and a Go run-time panic is an   *)
(* outcome of its own ("panic") next to the normal results.                 *)
(***************************************************************************)
EXTENDS Integers, Sequences, FiniteSets, TLC

VARIABLES
    pc,        \* codec: which call has been made ("idle" when none)
    raw,       \* codec: the line handed to ParseEvent
    parsed,    \* codec: what ParseEvent returned
    ev,        \* codec: the Event handed to Event.Bytes
    order,     \* codec: the order in which the tag map was ranged over
    out,       \* codec: what Event.Bytes returned
    cpc,       \* copy: "idle", "built" (an Event exists), "copied" (and its Copy)
    srcHeap,   \* copy: the Source objects, by address
    arrHeap,   \* copy: the backing arrays of Params slices, by address
    mapHeap,   \* copy: the Tags maps, by address
    orig,      \* copy: the Event struct e
    copy,      \* copy: the Event struct *e.Copy()
    users,     \* state store: nick -> user record
    channels,  \* state store: channel name -> channel record
    handled,   \* handlers: the event last handed to a built-in handler
    crashed,   \* handlers: a handler has panicked
    ownNick,   \* state store: the client's own nick (c.state.nick)
    ownIdent,  \* state store: the client's own ident (c.state.ident)
    ownHost,   \* state store: the client's own host (c.state.host)
    motd,      \* state store: the message of the day, a sequence of lines
    sent,      \* handlers: the outbound events of the handler last run
    attempted, \* server side: the nick the client asked for last
    resolver,  \* c.Config.HandleNickCollide: "nil" or "custom"
    joined,    \* intake: <<nick, channel>> when the event before `handled` was that JOIN
    mu,        \* c.state.mu: "free" or the thread that holds it
    dpc,       \* intake thread: where it stands in the handler it runs
    wpc,       \* welcome goroutines: where each stands in handleConnect
    wev,       \* welcome goroutines: the event each was started with
    rpc,       \* reader thread: "idle" or "reading" (inside an accessor)
    connected, \* welcome goroutines: CONNECTED events each has dispatched
    call,      \* library calls: the call made last, with its result
    tags,      \* library calls: the Tags map that Set and Remove work on
    motdLog,   \* intake: the MOTD events handled since, and with, the last RPL_MOTDSTART
    serverOptions  \* state store: c.state.serverOptions

codecVars == <<pc, raw, parsed, ev, order, out>>
copyVars == <<cpc, srcHeap, arrHeap, mapHeap, orig, copy>>
store == <<users, channels>>
stateVars == <<users, channels, handled, crashed>>
clientVars == <<ownNick, ownIdent, ownHost, motd, sent, attempted, resolver, joined>>
lockVars == <<mu, dpc, wpc, wev, rpc, connected>>
callVars == <<call, tags>>
sideVars == <<motdLog, serverOptions>>

vars == <<codecVars, copyVars, stateVars, clientVars, lockVars, callVars, sideVars>>

\* ------------------------------------------------------------------------
\* Constants of the program
\* ------------------------------------------------------------------------
eventSpace == " "
maxLength == 510
prefixTag == "@"
prefixTagValue == "="
tagSeparator == ";"
maxTagLength == 511
messagePrefix == ":"
prefixIdent == "!"
prefixHost == "@"
CR == "\r"
LF == "\n"

\* ------------------------------------------------------------------------
\* Bounds of the model
\* ------------------------------------------------------------------------
MaxRawLen == 5

\* ------------------------------------------------------------------------
\* Go string primitives
\* ------------------------------------------------------------------------
\* s[lo:hi] and s[lo:] with Go's 0-based, half-open indices
Slice(s, lo, hi) == SubSeq(s, lo + 1, hi)
SliceFrom(s, lo) == SubSeq(s, lo + 1, Len(s))

\* strings.IndexByte: 0-based index of the first c in s, -1 when absent
IndexByte(s, c) ==
    IF \E k \in 1..Len(s) : s[k] = c
    THEN (CHOOSE k \in 1..Len(s) : s[k] = c /\ \A m \in 1..(k - 1) : s[m] # c) - 1
    ELSE -1

cutCRFunc(r) == r = CR \/ r = LF

RECURSIVE TrimLeft(_)
TrimLeft(s) ==
    IF Len(s) > 0 /\ cutCRFunc(s[1]) THEN TrimLeft(Tail(s)) ELSE s

RECURSIVE TrimRight(_)
TrimRight(s) ==
    IF Len(s) > 0 /\ cutCRFunc(s[Len(s)]) THEN TrimRight(SubSeq(s, 1, Len(s) - 1)) ELSE s

\* strings.TrimFunc(raw, cutCRFunc)
TrimFunc(s) == TrimRight(TrimLeft(s))

Lower == <<"a", "b", "c", "d", "e", "f", "g", "h", "i", "j", "k", "l", "m",
           "n", "o", "p", "q", "r", "s", "t", "u", "v", "w", "x", "y", "z">>
Upper == <<"A", "B", "C", "D", "E", "F", "G", "H", "I", "J", "K", "L", "M",
           "N", "O", "P", "Q", "R", "S", "T", "U", "V", "W", "X", "Y", "Z">>

UpperChar(c) ==
    IF \E k \in 1..26 : Lower[k] = c
    THEN Upper[CHOOSE k \in 1..26 : Lower[k] = c]
    ELSE c

\* strings.ToUpper
ToUpper(s) == [k \in 1..Len(s) |-> UpperChar(s[k])]

\* strings.Split(s, sep) for a one-octet separator: "" splits into [""]
RECURSIVE Split(_, _)
Split(s, sep) ==
    LET k == IndexByte(s, sep) IN
    IF k < 0 THEN <<s>>
    ELSE <<Slice(s, 0, k)>> \o Split(SliceFrom(s, k + 1), sep)

\* strings.Join(elems, sep)
RECURSIVE Join(_, _)
Join(elems, sep) ==
    IF Len(elems) = 0 THEN <<>>
    ELSE IF Len(elems) = 1 THEN elems[1]
    ELSE elems[1] \o <<sep>> \o Join(Tail(elems), sep)

\* m[k] = v on a Go map
MapSet(m, k, v) == [x \in (DOMAIN m) \cup {k} |-> IF x = k THEN v ELSE m[x]]

EmptyMap == [x \in {} |-> <<>>]

\* ------------------------------------------------------------------------
\* tags.go
\* ------------------------------------------------------------------------
RECURSIVE ParseTagsLoop(_, _, _)
ParseTagsLoop(t, parts, i) ==
    IF i > Len(parts) THEN t
    ELSE LET part == parts[i]
             hasValue == IndexByte(part, prefixTagValue)
         IN  IF hasValue < 1
             THEN ParseTagsLoop(MapSet(t, part, <<>>), parts, i + 1)
             ELSE IF Len(part) < hasValue + 1
             THEN ParseTagsLoop(MapSet(t, part, <<>>), parts, i + 1)
             ELSE ParseTagsLoop(MapSet(t, Slice(part, 0, hasValue),
                                       SliceFrom(part, hasValue + 1)), parts, i + 1)

ParseTags(r) == ParseTagsLoop(EmptyMap, Split(r, tagSeparator), 1)

\* the orders in which a range over the map t can visit its keys
Orders(t) ==
    LET n == Cardinality(DOMAIN t) IN
    {o \in [1..n -> DOMAIN t] : \A a, b \in 1..n : a # b => o[a] # o[b]}

\* the body of the range loop of Tags.Bytes, visiting the keys in order o
RECURSIVE TagsBytesLoop(_, _, _, _)
TagsBytesLoop(t, o, current, buffer) ==
    IF current >= Len(o) THEN buffer
    ELSE LET tagName == o[current + 1]
             tagValue == t[tagName]
         IN  IF Len(buffer) + Len(tagName) + Len(tagValue) + 2 > maxTagLength
             THEN buffer
             ELSE LET b1 == buffer \o tagName
                      b2 == IF Len(tagValue) > 0
                            THEN b1 \o <<prefixTagValue>> \o tagValue ELSE b1
                      b3 == IF current <= Cardinality(DOMAIN t)
                            THEN b2 \o <<tagSeparator>> ELSE b2
                  IN  TagsBytesLoop(t, o, current + 1, b3)

\* Tags.Bytes
TagsBytes(t, o) ==
    IF Cardinality(DOMAIN t) = 0 THEN <<>> ELSE TagsBytesLoop(t, o, 0, <<>>)

\* Tags.writeTo: what it appends to the buffer
TagsWriteTo(t, o) ==
    LET b == TagsBytes(t, o) IN
    IF Len(b) = 0 THEN <<>> ELSE b \o <<eventSpace>>

\* the backslash
BS == "\\"

\* tagDecode: encoded -> decoded pairs
tagDecode ==
    << << <<BS, ":">>, <<";">> >>,
       << <<BS, "s">>, <<" ">> >>,
       << <<BS, BS>>, <<BS>> >>,
       << <<BS, "r">>, <<CR>> >>,
       << <<BS, "n">>, <<LF>> >> >>

\* tagEncode: decoded -> encoded pairs
tagEncode ==
    << << <<";">>, <<BS, ":">> >>,
       << <<" ">>, <<BS, "s">> >>,
       << <<BS>>, <<BS, BS>> >>,
       << <<CR>>, <<BS, "r">> >>,
       << <<LF>>, <<BS, "n">> >> >>

\* the pairs of a Replacer whose old string starts at 1-based position i of s
MatchesAt(s, i, pairs) ==
    { k \in 1..Len(pairs) :
        /\ i + Len(pairs[k][1]) - 1 <= Len(s)
        /\ SubSeq(s, i, i + Len(pairs[k][1]) - 1) = pairs[k][1] }

ReplaceEachInTurn(s, pairs) ==
    LET RECURSIVE All(_, _, _)
        All(x, i, p) ==
            IF i > Len(x) THEN <<>>
            ELSE IF MatchesAt(x, i, <<p>>) # {}
            THEN p[2] \o All(x, i + Len(p[1]), p)
            ELSE <<x[i]>> \o All(x, i + 1, p)
        RECURSIVE Turn(_, _)
        Turn(x, k) == IF k > Len(pairs) THEN x ELSE Turn(All(x, 1, pairs[k]), k + 1)
    IN  Turn(s, 1)

\* strings.NewReplacer(pairs...).Replace(s): one pass from left to right,
\* at each position the first pair (in argument order) that matches there,
\* no match inside what has been replaced; s itself when no octet of it
\* starts an old string
Replace(s, pairs) ==
    LET RECURSIVE From(_)
        From(i) ==
            IF i > Len(s) THEN <<>>
            ELSE LET ms == MatchesAt(s, i, pairs) IN
                 IF ms = {} THEN <<s[i]>> \o From(i + 1)
                 ELSE LET k == CHOOSE k \in ms : \A m \in ms : k <= m
                      IN  pairs[k][2] \o From(i + Len(pairs[k][1]))
        starts == {pairs[k][1][1] : k \in 1..Len(pairs)}
    IN  IF \A i \in 1..Len(s) : s[i] \notin starts THEN s ELSE From(1)

\* the octets validTag lets through: A-Z, a-z, 0x2D..0x39 and '_'
ValidTagOctets ==
    {Upper[k] : k \in 1..26} \cup {Lower[k] : k \in 1..26}
    \cup {"-", ".", "/", "0", "1", "2", "3", "4", "5", "6", "7", "8", "9"} \cup {"_"}

validTag(name) ==
    IF Len(name) < 1 THEN FALSE
    ELSE \A i \in 1..Len(name) : name[i] \in ValidTagOctets

\* Tags.Get
TagsGet(t, key) ==
    IF key \in DOMAIN t
    THEN [tag |-> Replace(t[key], tagDecode), success |-> TRUE]
    ELSE [tag |-> <<>>, success |-> FALSE]

\* Tags.Set, with o the order in which the range loop of t.Len() visits t
TagsSet(t, key, value, o) ==
    IF ~validTag(key)
    THEN [err |-> "invalid", tags |-> t]
    ELSE LET encoded == Replace(value, tagEncode) IN
         IF Len(TagsBytes(t, o)) + Len(key) + Len(encoded) + 2 > maxTagLength
         THEN [err |-> "too long", tags |-> t]
         ELSE [err |-> "nil", tags |-> MapSet(t, key, encoded)]

\* Tags.Remove
TagsRemove(t, key) ==
    IF key \in DOMAIN t
    THEN [success |-> TRUE, tags |-> [k \in DOMAIN t \ {key} |-> t[k]]]
    ELSE [success |-> FALSE, tags |-> t]

\* ------------------------------------------------------------------------
\* event.go: Source
\* ------------------------------------------------------------------------
MkSource(n, u, h) == [Name |-> n, Ident |-> u, Host |-> h]

\* ParseSource with the ident running to the end of the string in the
\* hostmask case
ParseSourceIdentToEnd(r) ==
    LET user == IndexByte(r, prefixIdent)
        host == IndexByte(r, prefixHost)
    IN  IF user > 0 /\ host > user
        THEN MkSource(Slice(r, 0, user), SliceFrom(r, user + 1), SliceFrom(r, host + 1))
        ELSE IF user > 0
        THEN MkSource(Slice(r, 0, user), SliceFrom(r, user + 1), <<>>)
        ELSE IF host > 0
        THEN MkSource(Slice(r, 0, host), <<>>, SliceFrom(r, host + 1))
        ELSE MkSource(r, <<>>, <<>>)

ParseSource(r) ==
    LET user == IndexByte(r, prefixIdent)
        host == IndexByte(r, prefixHost)
    IN  IF user > 0 /\ host > user
        THEN MkSource(Slice(r, 0, user), Slice(r, user + 1, host), SliceFrom(r, host + 1))
        ELSE IF user > 0
        THEN MkSource(Slice(r, 0, user), SliceFrom(r, user + 1), <<>>)
        ELSE IF host > 0
        THEN MkSource(Slice(r, 0, host), <<>>, SliceFrom(r, host + 1))
        ELSE MkSource(r, <<>>, <<>>)

\* Source.writeTo
SourceWriteTo(s) ==
    s.Name
    \o (IF Len(s.Ident) > 0 THEN <<prefixIdent>> \o s.Ident ELSE <<>>)
    \o (IF Len(s.Host) > 0 THEN <<prefixHost>> \o s.Host ELSE <<>>)

\* a slice expression s[lo:hi] panics unless 0 <= lo <= hi <= len(s)
SliceInRange(s, lo, hi) == 0 <= lo /\ lo <= hi /\ hi <= Len(s)

\* the slice expressions ParseSource evaluates on r are all in range
ParseSourceInRange(r) ==
    LET user == IndexByte(r, prefixIdent)
        host == IndexByte(r, prefixHost)
    IN  IF user > 0 /\ host > user
        THEN /\ SliceInRange(r, 0, user)
             /\ SliceInRange(r, user + 1, host)
             /\ SliceInRange(r, host + 1, Len(r))
        ELSE IF user > 0
        THEN SliceInRange(r, 0, user) /\ SliceInRange(r, user + 1, Len(r))
        ELSE IF host > 0
        THEN SliceInRange(r, 0, host) /\ SliceInRange(r, host + 1, Len(r))
        ELSE TRUE

\* Source.String
SourceString(s) ==
    LET withIdent == IF Len(s.Ident) > 0 THEN s.Name \o <<prefixIdent>> \o s.Ident
                                         ELSE s.Name
    IN  IF Len(s.Host) > 0 THEN withIdent \o <<prefixHost>> \o s.Host ELSE withIdent

IsHostmask(s) == Len(s.Ident) > 0 /\ Len(s.Host) > 0

IsServer(s) == Len(s.Ident) <= 0 /\ Len(s.Host) <= 0

\* ------------------------------------------------------------------------
\* event.go: Event
\* ------------------------------------------------------------------------
\* &Event{}: the zero Event
ZeroEvent ==
    [Source |-> <<>>, Tags |-> <<>>, Command |-> <<>>, Params |-> <<>>,
     Trailing |-> <<>>, EmptyTrailing |-> FALSE]

Returned(e) == [status |-> "ok", e |-> e]
ReturnedNil == [status |-> "nil", e |-> ZeroEvent]
Panicked == [status |-> "panic", e |-> ZeroEvent]

\* ParseEvent from "Find prefix for trailer" on: r is the line left after the
\* tags, j the index after the command's space
ParseEventParams(e, r, j) ==
    LET i == IndexByte(SliceFrom(r, j), messagePrefix) IN
    IF i < 0 \/ r[(j + i - 1) + 1] # eventSpace
    THEN Returned([e EXCEPT !.Params = Split(SliceFrom(r, j), eventSpace)])
    ELSE LET i2 == i + j
             e1 == IF i2 > j
                   THEN [e EXCEPT !.Params = Split(Slice(r, j, i2 - 1), eventSpace)]
                   ELSE e
             e2 == [e1 EXCEPT !.Trailing = SliceFrom(r, i2 + 1)]
         IN  Returned(IF Len(e2.Trailing) <= 0
                      THEN [e2 EXCEPT !.EmptyTrailing = TRUE] ELSE e2)

\* ParseEvent from "Find end of command" on: i is the index the code holds
\* when it gets there. r[i:] is out of range when i > len(r).
ParseEventCommand(e, r, i) ==
    IF i > Len(r) THEN Panicked
    ELSE LET j == i + IndexByte(SliceFrom(r, i), eventSpace) IN
         IF j < i
         THEN Returned([e EXCEPT !.Command = ToUpper(SliceFrom(r, i))])
         ELSE ParseEventParams([e EXCEPT !.Command = ToUpper(Slice(r, i, j))], r, j + 1)

\* ParseEvent from the source prefix on: r[0] is out of range when r is empty
ParseEventSource(e, r, i) ==
    IF Len(r) = 0 THEN Panicked
    ELSE IF r[1] = messagePrefix
    THEN LET i2 == IndexByte(r, eventSpace) IN
         IF i2 < 2 THEN ReturnedNil
         ELSE ParseEventCommand([e EXCEPT !.Source = <<ParseSource(Slice(r, 1, i2))>>],
                                r, i2 + 1)
    ELSE ParseEventCommand(e, r, i)

ParseEvent(line) ==
    LET r == TrimFunc(line) IN
    IF Len(r) < 2 THEN ReturnedNil
    ELSE IF r[1] = prefixTag
    THEN LET i == IndexByte(r, eventSpace) IN
         IF i < 2 THEN ReturnedNil
         ELSE ParseEventSource([ZeroEvent EXCEPT !.Tags = <<ParseTags(Slice(r, 1, i))>>],
                               SliceFrom(r, i + 1), i)
    ELSE ParseEventSource(ZeroEvent, r, 0)

\* the buffer of Event.Bytes before the length limit is applied
Compose(e, o) ==
    (IF Len(e.Tags) > 0 THEN TagsWriteTo(e.Tags[1], o) ELSE <<>>)
    \o (IF Len(e.Source) > 0
        THEN <<messagePrefix>> \o SourceWriteTo(e.Source[1]) \o <<eventSpace>>
        ELSE <<>>)
    \o e.Command
    \o (IF Len(e.Params) > 0 THEN <<eventSpace>> \o Join(e.Params, eventSpace) ELSE <<>>)
    \o (IF Len(e.Trailing) > 0 \/ e.EmptyTrailing
        THEN <<eventSpace, messagePrefix>> \o e.Trailing ELSE <<>>)

\* bytes.Buffer.Truncate(n) panics when n is greater than the buffer's length
Truncate(buffer, n) ==
    IF n < 0 \/ n > Len(buffer)
    THEN [status |-> "panic", out |-> <<>>]
    ELSE [status |-> "ok", out |-> SubSeq(buffer, 1, n)]

\* "We need the limit the buffer length."
Limit(e, buffer) ==
    IF Len(buffer) > maxLength
    THEN IF Len(e.Tags) > 0
         THEN Truncate(buffer, maxLength + maxTagLength + 1)
         ELSE Truncate(buffer, maxLength)
    ELSE [status |-> "ok", out |-> buffer]

\* the strip loop without its "i--": it goes on behind the octet that moved
\* into the place of the deleted one
StripNextSkipping(i) == i + 1

\* the index the strip loop goes on with after deleting the octet at i
StripNext(i) == (i - 1) + 1

\* "Strip newlines and carriage returns", i 0-based. The iterations that find
\* no CR/LF at i only advance i, so the loop is taken from one CR/LF at or
\* after i to the next.
RECURSIVE StripLoop(_, _)
StripLoop(o, i) ==
    IF \E k \in (i + 1)..Len(o) : o[k] = LF \/ o[k] = CR
    THEN LET k == CHOOSE k \in (i + 1)..Len(o) :
                      /\ (o[k] = LF \/ o[k] = CR)
                      /\ \A m \in (i + 1)..(k - 1) : ~(o[m] = LF \/ o[m] = CR)
         IN  StripLoop(Slice(o, 0, k - 1) \o SliceFrom(o, k), StripNext(k - 1))
    ELSE o

\* Event.Bytes, the tag map ranged over in order o
Bytes(e, o) ==
    LET limited == Limit(e, Compose(e, o)) IN
    IF limited.status = "panic" THEN limited
    ELSE [status |-> "ok", out |-> StripLoop(limited.out, 0)]

\* Tags.Len: the length of what Bytes returns, the map ranged over in order o
TagsLen(t, o) == Len(TagsBytes(t, o))

\* Source.Len
SourceLen(s) ==
    LET withIdent == IF Len(s.Ident) > 0 THEN 1 + Len(s.Name) + Len(s.Ident)
                                         ELSE Len(s.Name)
    IN  IF Len(s.Host) > 0 THEN 1 + withIdent + Len(s.Host) ELSE withIdent

\* the loop of Event.Len over e.Params
RECURSIVE ParamsLen(_, _)
ParamsLen(ps, i) == IF i >= Len(ps) THEN 0 ELSE Len(ps[i + 1]) + ParamsLen(ps, i + 1)

\* Event.Len, the tag map ranged over in order o
EventLen(e, o) ==
    (IF Len(e.Tags) > 0 THEN TagsLen(e.Tags[1], o) + 1 ELSE 0)
    + (IF Len(e.Source) > 0 THEN SourceLen(e.Source[1]) + 2 ELSE 0)
    + Len(e.Command)
    + (IF Len(e.Params) > 0 THEN Len(e.Params) + ParamsLen(e.Params, 0) ELSE 0)
    + (IF Len(e.Trailing) > 0 \/ e.EmptyTrailing THEN Len(e.Trailing) + 2 ELSE 0)

\* ------------------------------------------------------------------------
\* The codec as a state machine: a caller hands a line to ParseEvent or an
\* Event to Event.Bytes, and may feed the result of one to the other
\* ------------------------------------------------------------------------
Alphabet == {"@", ":", " ", "a", "b", CR}

Strings(A, n) == UNION {[1..k -> A] : k \in 0..n}

\* lines of the protocol that are longer than MaxRawLen
ExampleLines ==
    { <<"C", "M", "D", " ", "a", " ", ":">>,
      <<"C", "M", "D", " ", "a">>,
      <<"C", "M", "D", " ", "a", ":", "b", " ", ":">>,
      <<"C", "M", "D", " ", "a", ":", "b", " ", ":",
        "h", "e", "l", "l", "o", " ", "w", "o", "r", "l", "d">>,
      <<"@", "k", "=", "v", ";", "j", " ", "c", "m", "d", " ", "a", " ", ":", "x", " ", "y">>,
      <<"@", "k", "=", "v", " ", ":", "n", "!", "u", "@", "h", " ",
        "c", "m", "d", " ", "a", " ", ":", "x">>,
      <<":", "n", "!", "u", "@", "h", " ", "c", "m", "d", " ", "a", " ", "b", " ", ":">>,
      <<"@", "k", " ", "c", "m", "d", " ", "a", "b", "c", "d", LF>> }

RawLines == Strings(Alphabet, MaxRawLen) \cup ExampleLines

Pad(n) == [k \in 1..n |-> "x"]

SourceChoices ==
    { <<>>,
      <<MkSource(<<"n">>, <<>>, <<>>)>>,
      <<MkSource(<<"n">>, <<"u">>, <<"h">>)>>,
      <<MkSource(<<"n">>, <<>>, <<"h">>)>> }

TagChoices ==
    { <<>>,
      <<EmptyMap>>,
      <<MapSet(EmptyMap, <<"k">>, <<>>)>>,
      <<MapSet(EmptyMap, <<"k">>, <<"v">>)>>,
      <<MapSet(MapSet(EmptyMap, <<"k">>, <<"v">>), <<"j">>, <<>>)>> }

CommandChoices == {<<"P">>, <<"C", "M">>, <<>>}

ParamChoices ==
    { <<>>, <<<<"a">>>>, <<<<"a", ":", "b">>>>, <<<<"a">>, <<"b">>>>, <<<<":", "a">>>> }

TrailingChoices == {<<>>, <<"x">>, <<"x", " ", "y">>, <<":", "x">>}

MkEvent(s, t, c, p, tr, et) ==
    [Source |-> s, Tags |-> t, Command |-> c, Params |-> p,
     Trailing |-> tr, EmptyTrailing |-> et]

ShortEvents ==
    { MkEvent(s, t, c, p, tr, et) :
        s \in SourceChoices, t \in TagChoices, c \in CommandChoices,
        p \in ParamChoices, tr \in TrailingChoices, et \in BOOLEAN }

\* trailing texts that bring the line below, between and above the two limits
PadLens ==
    { maxLength - 4, maxLength - 3, maxLength + 10,
      maxLength + maxTagLength - 3, maxLength + maxTagLength - 2,
      maxLength + maxTagLength + 10 }

LongEvents ==
    { MkEvent(<<>>, t, <<"P">>, <<>>, Pad(n) \o tr, FALSE) :
        t \in TagChoices, n \in PadLens, tr \in {<<>>, <<CR, LF, "y">>} }

\* events whose fields carry line terminators
InjectionEvents ==
    { MkEvent(s, t, c, p, tr, FALSE) :
        s \in {<<>>, <<MkSource(<<"n", LF>>, <<CR, "u">>, <<"h">>)>>},
        t \in {<<>>, <<MapSet(EmptyMap, <<"k">>, <<CR, LF>>)>>},
        c \in {<<"P">>, <<"P", LF, "Q">>},
        p \in {<<>>, <<<<"a", CR, LF, LF, "b">>>>},
        tr \in {<<"x">>, <<CR, CR>>, <<"x", CR, LF, "P", " ", "y", LF>>} }

Events == ShortEvents \cup LongEvents \cup InjectionEvents

\* the orders a range over e.Tags can take (one, empty, when there is no map)
TagOrders(e) == IF Len(e.Tags) > 0 THEN Orders(e.Tags[1]) ELSE {<<>>}

NoParse == [status |-> "none", e |-> ZeroEvent]
NoBytes == [status |-> "none", out |-> <<>>]

InitCodec ==
    /\ pc = "idle"
    /\ raw = <<>>
    /\ parsed = NoParse
    /\ ev = ZeroEvent
    /\ order = <<>>
    /\ out = NoBytes

\* e := ParseEvent(line)
CallParseEvent ==
    /\ pc = "idle"
    /\ \E line \in RawLines :
        /\ raw' = line
        /\ parsed' = ParseEvent(line)
    /\ pc' = "parsed"
    /\ UNCHANGED <<ev, order, out>>
    /\ UNCHANGED <<copyVars, stateVars, clientVars, lockVars, callVars, sideVars>>

\* b := e.Bytes()
CallBytes ==
    /\ pc = "idle"
    /\ \E e \in Events :
        /\ ev' = e
        /\ \E o \in TagOrders(e) :
            /\ order' = o
            /\ out' = Bytes(e, o)
    /\ pc' = "serialized"
    /\ UNCHANGED <<raw, parsed>>
    /\ UNCHANGED <<copyVars, stateVars, clientVars, lockVars, callVars, sideVars>>

\* ParseEvent(e.String()) on the line just serialized
ParseSerialized ==
    /\ pc = "serialized"
    /\ out.status = "ok"
    /\ raw' = out.out
    /\ parsed' = ParseEvent(out.out)
    /\ pc' = "roundtrip"
    /\ UNCHANGED <<ev, order, out>>
    /\ UNCHANGED <<copyVars, stateVars, clientVars, lockVars, callVars, sideVars>>

\* ParseEvent(line).Bytes() on the event just parsed
SerializeParsed ==
    /\ pc = "parsed"
    /\ parsed.status = "ok"
    /\ ev' = parsed.e
    /\ \E o \in TagOrders(parsed.e) :
        /\ order' = o
        /\ out' = Bytes(parsed.e, o)
    /\ pc' = "reserialized"
    /\ UNCHANGED <<raw, parsed>>
    /\ UNCHANGED <<copyVars, stateVars, clientVars, lockVars, callVars, sideVars>>

\* the caller is done with the results
Return ==
    /\ pc # "idle"
    /\ pc' = "idle"
    /\ raw' = <<>>
    /\ parsed' = NoParse
    /\ ev' = ZeroEvent
    /\ order' = <<>>
    /\ out' = NoBytes
    /\ UNCHANGED <<copyVars, stateVars, clientVars, lockVars, callVars, sideVars>>

NextCodec ==
    \/ CallParseEvent
    \/ CallBytes
    \/ ParseSerialized
    \/ SerializeParsed
    \/ Return

\* ------------------------------------------------------------------------
\* event.go: Event.Copy, on a heap. An Event struct holds the address of its
\* Source (0 when nil), the slice header of its Params (backing array and
\* length, array 0 when nil) and the address of its Tags map (0 when nil).
\* The strings of this part are atoms: only who can see a write matters.
\* ------------------------------------------------------------------------
NilAddr == 0

SourceValues == {<<>>, <<MkSource("n", "u", "h")>>}
ParamsValues == {<<>>, <<"a">>, <<"a", "b">>}
TagsValues == {<<>>, <<EmptyMap>>, <<MapSet(EmptyMap, "k", "v")>>}
WrittenValues == {"w"}
WrittenKeys == {"k", "j"}

NoStruct == [Source |-> NilAddr, Params |-> [arr |-> NilAddr, len |-> 0],
             Tags |-> NilAddr, Command |-> ""]

InitCopy ==
    /\ cpc = "idle"
    /\ srcHeap = <<>>
    /\ arrHeap = <<>>
    /\ mapHeap = <<>>
    /\ orig = NoStruct
    /\ copy = NoStruct

\* e := &Event{Source: s, Params: p, Tags: t, Command: "CMD"}
NewEvent ==
    /\ cpc = "idle"
    /\ \E s \in SourceValues, p \in ParamsValues, t \in TagsValues :
        /\ srcHeap' = s
        /\ arrHeap' = IF Len(p) > 0 THEN <<p>> ELSE <<>>
        /\ mapHeap' = t
        /\ orig' = [Source |-> Len(s),
                    Params |-> [arr |-> IF Len(p) > 0 THEN 1 ELSE NilAddr, len |-> Len(p)],
                    Tags |-> Len(t),
                    Command |-> "CMD"]
    /\ cpc' = "built"
    /\ UNCHANGED copy
    /\ UNCHANGED <<codecVars, stateVars, clientVars, lockVars, callVars, sideVars>>

\* copy(dst, src) on two slices: the first min(len) elements of dst's array
CopySlice(heap, dst, src) ==
    [heap EXCEPT ![dst.arr] =
        [k \in 1..Len(@) |->
            IF k <= dst.len /\ k <= src.len THEN heap[src.arr][k] ELSE @[k]]]

\* the Event struct that Copy returns: "*newEvent = *e", then Tags replaced
\* by a fresh map when e.Tags is not nil
CopiedStruct(e, heap) ==
    IF e.Tags # NilAddr THEN [e EXCEPT !.Tags = Len(heap) + 1] ELSE e

\* c := e.Copy()
CallCopy ==
    /\ cpc = "built"
    /\ LET newEvent == orig IN
        /\ srcHeap' = IF orig.Source # NilAddr
                      THEN [srcHeap EXCEPT ![newEvent.Source] = srcHeap[orig.Source]]
                      ELSE srcHeap
        /\ arrHeap' = IF orig.Params.arr # NilAddr
                      THEN CopySlice(arrHeap, newEvent.Params, orig.Params)
                      ELSE arrHeap
        /\ mapHeap' = IF orig.Tags # NilAddr
                      THEN Append(mapHeap, [k \in DOMAIN mapHeap[orig.Tags] |->
                                               mapHeap[orig.Tags][k]])
                      ELSE mapHeap
        /\ copy' = CopiedStruct(newEvent, mapHeap)
    /\ cpc' = "copied"
    /\ UNCHANGED orig
    /\ UNCHANGED <<codecVars, stateVars, clientVars, lockVars, callVars, sideVars>>

Struct(who) == IF who = "orig" THEN orig ELSE copy

\* x.Source.Name = v (or Ident, or Host), x being e or c
WriteSource(who, field, v) ==
    /\ cpc = "copied"
    /\ Struct(who).Source # NilAddr
    /\ srcHeap' = [srcHeap EXCEPT ![Struct(who).Source] =
                      IF field = "Name" THEN [@ EXCEPT !.Name = v]
                      ELSE IF field = "Ident" THEN [@ EXCEPT !.Ident = v]
                      ELSE [@ EXCEPT !.Host = v]]
    /\ UNCHANGED <<cpc, arrHeap, mapHeap, orig, copy>>
    /\ UNCHANGED <<codecVars, stateVars, clientVars, lockVars, callVars, sideVars>>

\* x.Params[i] = v
WriteParam(who, i, v) ==
    /\ cpc = "copied"
    /\ i >= 0 /\ i < Struct(who).Params.len
    /\ arrHeap' = [arrHeap EXCEPT ![Struct(who).Params.arr][i + 1] = v]
    /\ UNCHANGED <<cpc, srcHeap, mapHeap, orig, copy>>
    /\ UNCHANGED <<codecVars, stateVars, clientVars, lockVars, callVars, sideVars>>

\* x.Tags[k] = v
WriteTag(who, k, v) ==
    /\ cpc = "copied"
    /\ Struct(who).Tags # NilAddr
    /\ mapHeap' = [mapHeap EXCEPT ![Struct(who).Tags] = MapSet(@, k, v)]
    /\ UNCHANGED <<cpc, srcHeap, arrHeap, orig, copy>>
    /\ UNCHANGED <<codecVars, stateVars, clientVars, lockVars, callVars, sideVars>>

\* both events are dropped
Discard ==
    /\ cpc # "idle"
    /\ cpc' = "idle"
    /\ srcHeap' = <<>>
    /\ arrHeap' = <<>>
    /\ mapHeap' = <<>>
    /\ orig' = NoStruct
    /\ copy' = NoStruct
    /\ UNCHANGED <<codecVars, stateVars, clientVars, lockVars, callVars, sideVars>>

Holders == {"orig", "copy"}

NextCopy ==
    \/ NewEvent
    \/ CallCopy
    \/ \E who \in Holders, f \in {"Name", "Ident", "Host"}, v \in WrittenValues :
          WriteSource(who, f, v)
    \/ \E who \in Holders, i \in 0..1, v \in WrittenValues : WriteParam(who, i, v)
    \/ \E who \in Holders, k \in WrittenKeys, v \in WrittenValues : WriteTag(who, k, v)
    \/ Discard

\* ------------------------------------------------------------------------
\* The built-in handlers on the State Store. Strings are atoms here. The
\* store's own code is not part of the sources at hand: users and channels
\* follow the data model's description.
\* ------------------------------------------------------------------------
RPL_WHOREPLY == "352"
RPL_WHOSPCRPL == "354"

MaxWhoParams == 8

ValidNicks == {"A", "B", "me"}
ValidChannels == {"#x", "#y"}

NoEvent == [Command |-> "", Params |-> <<>>, Trailing |-> ""]

InitState ==
    /\ users = EmptyMap
    /\ channels = EmptyMap
    /\ handled = NoEvent
    /\ crashed = FALSE

\* a user record as the store creates it: Perms holds the mode prefixes by
\* channel, LastActive is "never" until the user has been seen active
NewUser ==
    [Ident |-> "", Host |-> "", Name |-> "", Account |-> "", Channels |-> {},
     Perms |-> EmptyMap, LastActive |-> "never"]
NewChannel == [Topic |-> "", Users |-> {}]

\* state.createUserIfNotExists(channel, nick): the user record to work on, or
\* nil (ok = FALSE, nothing changed) when the nick or the channel is invalid
createUserIfNotExists(us, chs, channel, nick) ==
    IF nick \notin ValidNicks \/ channel \notin ValidChannels
    THEN [ok |-> FALSE, users |-> us, channels |-> chs]
    ELSE LET c == IF channel \in DOMAIN chs THEN chs[channel] ELSE NewChannel
             u == IF nick \in DOMAIN us THEN us[nick] ELSE NewUser
         IN  [ok |-> TRUE,
              users |-> MapSet(us, nick, [u EXCEPT !.Channels = @ \cup {channel}]),
              channels |-> MapSet(chs, channel, [c EXCEPT !.Users = @ \cup {nick}])]

\* the fields handleWHO reads from the event; panic when an index is out of
\* range of e.Params
WhoFields(e) ==
    IF e.Command = RPL_WHOSPCRPL
    THEN IF Len(e.Params) # 7 THEN [status |-> "ignore"]
         ELSE IF e.Params[2] # "1" THEN [status |-> "ignore"]
         ELSE [status |-> "ok", channel |-> e.Params[3], ident |-> e.Params[4],
               host |-> e.Params[5], nick |-> e.Params[6], account |-> e.Params[7]]
    ELSE IF Len(e.Params) <= 5 THEN [status |-> "panic"]
         ELSE [status |-> "ok", channel |-> e.Params[2], ident |-> e.Params[3],
               host |-> e.Params[4], nick |-> e.Params[6], account |-> ""]

\* handleWHO(c, e)
handleWHO(e) ==
    /\ ~crashed
    /\ handled' = e
    /\ LET f == WhoFields(e) IN
        IF f.status = "panic"
        THEN crashed' = TRUE /\ UNCHANGED <<users, channels>>
        ELSE IF f.status = "ignore"
        THEN UNCHANGED <<users, channels, crashed>>
        ELSE LET r == createUserIfNotExists(users, channels, f.channel, f.nick) IN
             IF ~r.ok
             THEN UNCHANGED <<users, channels, crashed>>
             ELSE /\ users' = [r.users EXCEPT ![f.nick] =
                                  [@ EXCEPT !.Host = f.host,
                                            !.Ident = f.ident,
                                            !.Name = e.Trailing,
                                            !.Account = IF f.account # "0"
                                                        THEN f.account ELSE @]]
                  /\ channels' = r.channels
                  /\ UNCHANGED crashed
    /\ UNCHANGED <<codecVars, copyVars, clientVars, lockVars, callVars, sideVars>>

Take(s, n) == SubSeq(s, 1, IF n < Len(s) THEN n ELSE Len(s))

\* WHO replies as servers send them, cut off after 0..MaxWhoParams parameters
WhoReplies ==
    { [Command |-> RPL_WHOREPLY,
       Params |-> Take(<<"me", ch, id, "h1", "srv", ni, "H", "+", "+">>, n),
       Trailing |-> "Real"] :
        ch \in {"#x", "bad"}, id \in {"u1", "u2"}, ni \in {"A", "B", ""},
        n \in 0..MaxWhoParams }

WhoxReplies ==
    { [Command |-> RPL_WHOSPCRPL,
       Params |-> Take(<<"me", tag, ch, id, "h1", ni, acct, "+", "+">>, n),
       Trailing |-> "Real"] :
        tag \in {"1", "2"}, ch \in {"#x", "bad"}, id \in {"u1", "u2"},
        ni \in {"A", "B", ""}, acct \in {"0", "acc"}, n \in 0..MaxWhoParams }

NextState ==
    \/ \E e \in WhoReplies : handleWHO(e)
    \/ \E e \in WhoxReplies : handleWHO(e)

\* ------------------------------------------------------------------------
\* The handlers that follow membership and the client's own nick, each run
\* as one step of the intake path. Client.GetNick, Client.Send,
\* Commands.Nick and the store's deleteUser / deleteChannel are not part of
\* the sources at hand and follow the specification's description.
\* ------------------------------------------------------------------------

RPL_WELCOME == "001"
RPL_MOTD == "372"
RPL_MOTDSTART == "375"
ERR_NICKNAMEINUSE == "433"
ERR_NICKCOLLISION == "436"
ERR_UNAVAILRESOURCE == "437"

\* c.Config.Nick, the nick the client registers with
ConfigNick == "me"

\* the longest nick a collision is still answered for
MaxNickLen == 4

InitClient ==
    /\ ownNick = ConfigNick
    /\ ownIdent = ""
    /\ ownHost = ""
    /\ motd = <<>>
    /\ sent = <<>>
    /\ attempted = ConfigNick
    /\ resolver = "nil"
    /\ joined = <<>>

\* the JOIN that `handled` is, as <<nick, channel>>, for the next event to
\* look back on
JoinBefore ==
    IF handled.Command = "JOIN"
    THEN IF handled.Source # <<>> /\ Len(handled.Params) >= 1
         THEN <<handled.Source[1].Name, handled.Params[1]>>
         ELSE <<>>
    ELSE <<>>

\* c.GetNick(): the client's own nick as the store knows it
GetNick == ownNick

\* c.Send(&Event{Command: command, Params: params})
OutEvent(command, params) == [Command |-> command, Params |-> params]

\* c.Commands.Nick(name)
CommandsNick(name) == <<OutEvent("NICK", <<name>>)>>

\* c.Config.HandleNickCollide(oldNick), when the application has set one
HandleNickCollide(oldNick) == oldNick \o "1"

\* state.deleteUser(nick): the user is gone from the table and from every
\* channel's members
deleteUser(us, chs, n) ==
    [users |-> [u \in DOMAIN us \ {n} |-> us[u]],
     channels |-> [c \in DOMAIN chs |-> [chs[c] EXCEPT !.Users = @ \ {n}]]]

\* state.deleteChannel(name): the channel is gone from the table and from
\* every member's channel set; a member that is left in no channel is no
\* longer known to share a channel with the client and goes as well
deleteChannel(us, chs, name) ==
    IF name \notin DOMAIN chs THEN [users |-> us, channels |-> chs]
    ELSE LET members == chs[name].Users \cap DOMAIN us
             gone == { u \in members : us[u].Channels \ {name} = {} }
         IN  [users |-> [u \in DOMAIN us \ gone |->
                            IF u \in members
                            THEN [us[u] EXCEPT !.Channels = @ \ {name},
                                               !.Perms = [c \in DOMAIN @ \ {name} |-> @[c]]]
                            ELSE us[u]],
              channels |-> [c \in DOMAIN chs \ {name} |-> chs[c]]]

\* state.renameUser(from, to): the record of `from` is the record of `to`
\* from now on, in the table and in every channel's members, with its
\* LastActive time refreshed; what was known of `to` before is dropped;
\* nick is the client's own, which follows when it is the one renamed
renameUser(us, chs, nick, from, to) ==
    IF from \notin DOMAIN us THEN [users |-> us, channels |-> chs, nick |-> nick]
    ELSE [users |-> [u \in (DOMAIN us \ {from}) \cup {to} |->
                        IF u = to THEN [us[from] EXCEPT !.LastActive = "now"] ELSE us[u]],
          channels |-> [c \in DOMAIN chs |->
                           [chs[c] EXCEPT !.Users =
                               IF from \in @ THEN (@ \ {from}) \cup {to} ELSE @ \ {to}]],
          nick |-> IF from = nick THEN to ELSE nick]

\* handleJOIN, the extended-join part: user.Extras.Account and
\* user.Extras.Name of the user createUserIfNotExists returned
JoinExtras(us, e) ==
    IF Len(e.Params) = 2
    THEN [us EXCEPT ![e.Source[1].Name] =
             [@ EXCEPT !.Account = IF e.Params[2] # "*" THEN e.Params[2] ELSE @,
                       !.Name = IF e.Trailing # "" THEN e.Trailing ELSE @]]
    ELSE us

\* handleJOIN that leaves out the MODE query when the client itself joins
handleJOINWithoutMode(e) ==
    /\ ~crashed
    /\ handled' = e
    /\ joined' = JoinBefore
    /\ IF e.Source = <<>> \/ Len(e.Params) < 1
       THEN sent' = <<>> /\ UNCHANGED <<users, channels, ownIdent, ownHost>>
       ELSE LET r == createUserIfNotExists(users, channels, e.Params[1], e.Source[1].Name) IN
            IF ~r.ok
            THEN sent' = <<>> /\ UNCHANGED <<users, channels, ownIdent, ownHost>>
            ELSE /\ users' = JoinExtras(r.users, e)
                 /\ channels' = r.channels
                 /\ IF e.Source[1].Name = GetNick
                    THEN /\ sent' = <<OutEvent("WHO", <<e.Params[1], "%tacuhnr,1">>)>>
                         /\ ownIdent' = e.Source[1].Ident
                         /\ ownHost' = e.Source[1].Host
                    ELSE /\ sent' = <<OutEvent("WHO", <<e.Source[1].Name, "%tacuhnr,1">>)>>
                         /\ UNCHANGED <<ownIdent, ownHost>>
    /\ UNCHANGED <<crashed, ownNick, motd, attempted, resolver>>
    /\ UNCHANGED <<codecVars, copyVars, lockVars, callVars, sideVars>>

\* handleJOIN(c, e)
handleJOIN(e) ==
    /\ ~crashed
    /\ handled' = e
    /\ joined' = JoinBefore
    /\ IF e.Source = <<>> \/ Len(e.Params) < 1
       THEN sent' = <<>> /\ UNCHANGED <<users, channels, ownIdent, ownHost>>
       ELSE LET r == createUserIfNotExists(users, channels, e.Params[1], e.Source[1].Name) IN
            IF ~r.ok
            THEN sent' = <<>> /\ UNCHANGED <<users, channels, ownIdent, ownHost>>
            ELSE /\ users' = JoinExtras(r.users, e)
                 /\ channels' = r.channels
                 /\ IF e.Source[1].Name = GetNick
                    THEN /\ sent' = <<OutEvent("WHO", <<e.Params[1], "%tacuhnr,1">>),
                                      OutEvent("MODE", <<e.Params[1]>>)>>
                         /\ ownIdent' = e.Source[1].Ident
                         /\ ownHost' = e.Source[1].Host
                    ELSE /\ sent' = <<OutEvent("WHO", <<e.Source[1].Name, "%tacuhnr,1">>)>>
                         /\ UNCHANGED <<ownIdent, ownHost>>
    /\ UNCHANGED <<crashed, ownNick, motd, attempted, resolver>>
    /\ UNCHANGED <<codecVars, copyVars, lockVars, callVars, sideVars>>

PartEffectKeepingUser(us, chs, e, me) ==
    IF e.Source = <<>> \/ Len(e.Params) = 0
    THEN [users |-> us, channels |-> chs]
    ELSE IF e.Source[1].Name = me
    THEN deleteChannel(us, chs, e.Params[1])
    ELSE [users |-> us, channels |-> chs]

\* what handlePART does to the store
PartEffect(us, chs, e, me) ==
    IF e.Source = <<>> \/ Len(e.Params) = 0
    THEN [users |-> us, channels |-> chs]
    ELSE IF e.Source[1].Name = me
    THEN deleteChannel(us, chs, e.Params[1])
    ELSE deleteUser(us, chs, e.Source[1].Name)

\* handlePART(c, e)
handlePART(e) ==
    /\ ~crashed
    /\ handled' = e
    /\ joined' = JoinBefore
    /\ sent' = <<>>
    /\ LET r == PartEffect(users, channels, e, GetNick) IN
        users' = r.users /\ channels' = r.channels
    /\ UNCHANGED <<crashed, ownNick, ownIdent, ownHost, motd, attempted, resolver>>
    /\ UNCHANGED <<codecVars, copyVars, lockVars, callVars, sideVars>>

\* the nick handleKICK compares with the client's own
KickedNick(e) == e.Params[2]

KickEffectBySource(us, chs, e, me) ==
    IF Len(e.Params) < 2
    THEN [users |-> us, channels |-> chs]
    ELSE IF e.Source # <<>> /\ e.Source[1].Name = me
    THEN deleteChannel(us, chs, e.Params[1])
    ELSE deleteUser(us, chs, KickedNick(e))

\* what handleKICK does to the store
KickEffect(us, chs, e, me) ==
    IF Len(e.Params) < 2
    THEN [users |-> us, channels |-> chs]
    ELSE IF KickedNick(e) = me
    THEN deleteChannel(us, chs, e.Params[1])
    ELSE deleteUser(us, chs, KickedNick(e))

\* handleKICK(c, e); updateLastActive, which KICK runs as well, changes
\* nothing but the source's LastActive time
handleKICK(e) ==
    /\ ~crashed
    /\ handled' = e
    /\ joined' = JoinBefore
    /\ sent' = <<>>
    /\ LET r == KickEffect(users, channels, e, GetNick) IN
        users' = r.users /\ channels' = r.channels
    /\ UNCHANGED <<crashed, ownNick, ownIdent, ownHost, motd, attempted, resolver>>
    /\ UNCHANGED <<codecVars, copyVars, lockVars, callVars, sideVars>>

\* the nick nickCollisionHandler asks for
CollisionNick == IF resolver = "nil" THEN GetNick \o "_" ELSE HandleNickCollide(GetNick)

\* nickCollisionHandler(c, e)
nickCollisionHandler(e) ==
    /\ ~crashed
    /\ handled' = e
    /\ joined' = JoinBefore
    /\ sent' = CommandsNick(CollisionNick)
    /\ attempted' = CollisionNick
    /\ UNCHANGED <<users, channels, crashed, ownNick, ownIdent, ownHost, motd, resolver>>
    /\ UNCHANGED <<codecVars, copyVars, lockVars, callVars, sideVars>>

AfterNickUnrecorded(e, n) == n

\* c.state.nick once handleConnect has looked at e.Params
AfterNick(e, n) == IF Len(e.Params) > 0 THEN e.Params[1] ELSE n

\* handleConnect(c, e), run to its end: the nick the server gave, and after
\* the delay the CONNECTED event, for which no built-in handler changes
\* anything the store holds
handleConnect(e) ==
    /\ ~crashed
    /\ handled' = e
    /\ joined' = JoinBefore
    /\ sent' = <<>>
    /\ ownNick' = AfterNick(e, ownNick)
    /\ attempted' = AfterNick(e, attempted)
    /\ UNCHANGED <<users, channels, crashed, ownIdent, ownHost, motd, resolver>>
    /\ UNCHANGED <<codecVars, copyVars, lockVars, callVars, sideVars>>

\* the application sets or clears c.Config.HandleNickCollide
SetHandleNickCollide(r) ==
    /\ r # resolver
    /\ resolver' = r
    /\ UNCHANGED <<ownNick, ownIdent, ownHost, motd, sent, attempted, joined>>
    /\ UNCHANGED <<codecVars, copyVars, stateVars, lockVars, callVars, sideVars>>

\* the source of an event sent by nick n
From(n) == <<MkSource(n, "u", "h")>>

TrackSources == {<<>>, From("A"), From(ConfigNick)}

\* JOIN as servers send it, plain and extended (account, real name)
JoinEvents ==
    { [Command |-> "JOIN", Source |-> s, Params |-> p, Trailing |-> ""] :
        s \in TrackSources, p \in {<<>>, <<"#x">>, <<"#y">>, <<"bad">>} } \cup
    { [Command |-> "JOIN", Source |-> s, Params |-> <<"#x", x[1]>>, Trailing |-> x[2]] :
        s \in TrackSources, x \in {<<"acc", "Real">>, <<"*", "">>} }

PartEvents ==
    { [Command |-> "PART", Source |-> s, Params |-> p, Trailing |-> ""] :
        s \in TrackSources, p \in {<<>>, <<"#x">>, <<"#y">>} }

KickEvents ==
    { [Command |-> "KICK", Source |-> s, Params |-> p, Trailing |-> "out"] :
        s \in {<<>>, From("B")},
        p \in {<<>>, <<"#x">>} \cup
              { <<ch, n>> : ch \in {"#x", "#y"}, n \in {"A", "B", ConfigNick} } }

\* the welcome of a server that keeps the client's nick or renames it
TrackWelcomes ==
    { [Command |-> RPL_WELCOME, Source |-> From("srv"), Params |-> p,
       Trailing |-> "Welcome"] : p \in {<<>>, <<ConfigNick>>, <<"A">>} }

NextTrack ==
    \/ \E e \in JoinEvents : handleJOIN(e)
    \/ \E e \in PartEvents : handlePART(e)
    \/ \E e \in KickEvents : handleKICK(e)
    \/ \E e \in TrackWelcomes : handleConnect(e)

\* the error a server answers a NICK (or the registration) with, naming the
\* nick it refused
CollisionEvents ==
    { [Command |-> cmd, Source |-> From("srv"), Params |-> <<"*", attempted>>,
       Trailing |-> "Nickname is already in use"] :
        cmd \in {ERR_NICKNAMEINUSE, ERR_NICKCOLLISION, ERR_UNAVAILRESOURCE} }

\* the welcome of a server that accepts the nick asked for last, or renames
NickWelcomes ==
    { [Command |-> RPL_WELCOME, Source |-> From("srv"), Params |-> p,
       Trailing |-> "Welcome"] : p \in {<<>>, <<attempted>>, <<"A">>} }

NextNick ==
    \/ \E e \in CollisionEvents : Len(attempted) < MaxNickLen /\ nickCollisionHandler(e)
    \/ \E e \in NickWelcomes : handleConnect(e)
    \/ \E r \in {"nil", "custom"} : SetHandleNickCollide(r)

\* ------------------------------------------------------------------------
\* The same handlers statement by statement, with the store's lock: the
\* intake thread runs one handler at a time, every RPL_WELCOME starts a
\* goroutine that runs handleConnect, and a reader thread stands for the
\* application's calls of the store's accessors.
\* ------------------------------------------------------------------------

\* the welcome events (and so handleConnect goroutines) of one run
MaxWelcomes == 1

\* the tokens (lines and newlines) the message of the day may grow to
MaxMotdLen == 2

\* the fields of the State Store that handlers write
stateFields == <<ownNick, ownIdent, ownHost, users, channels, motd>>

\* c.state.mu.Lock() by thread t: possible once the lock is free
Lock(t) == mu = "free" /\ mu' = t

\* c.state.mu.Unlock()
Unlock == mu' = "free"

\* handleJOIN up to the first lock: the returns for e.Source == nil and for
\* an event without parameters
JoinEnter(e) ==
    /\ dpc = "idle"
    /\ handled' = e
    /\ sent' = <<>>
    /\ dpc' = IF e.Source = <<>> \/ Len(e.Params) < 1 THEN "idle" ELSE "join_lock"
    /\ UNCHANGED <<users, channels, crashed, mu, wpc, wev, rpc, connected>>
    /\ UNCHANGED <<ownNick, ownIdent, ownHost, motd, attempted, resolver, joined>>
    /\ UNCHANGED <<codecVars, copyVars, callVars, sideVars>>

\* c.state.mu.Lock() of handleJOIN, before createUserIfNotExists
JoinLock ==
    /\ dpc = "join_lock"
    /\ Lock("intake")
    /\ dpc' = "join_create"
    /\ UNCHANGED <<wpc, wev, rpc, connected>>
    /\ UNCHANGED <<codecVars, copyVars, stateVars, clientVars, callVars, sideVars>>

\* user := createUserIfNotExists(...); Unlock(); return when user == nil
JoinCreate ==
    /\ dpc = "join_create"
    /\ LET r == createUserIfNotExists(users, channels, handled.Params[1],
                                      handled.Source[1].Name) IN
        /\ users' = r.users
        /\ channels' = r.channels
        /\ dpc' = IF r.ok THEN "join_extras" ELSE "idle"
    /\ Unlock
    /\ UNCHANGED <<handled, crashed, wpc, wev, rpc, connected>>
    /\ UNCHANGED <<codecVars, copyVars, clientVars, callVars, sideVars>>

\* the extended-join block: user.Extras.Account, user.Extras.Name
JoinWriteExtras ==
    /\ dpc = "join_extras"
    /\ users' = IF handled.Source[1].Name \in DOMAIN users
                THEN JoinExtras(users, handled) ELSE users
    /\ dpc' = "join_getnick"
    /\ UNCHANGED <<channels, handled, crashed, mu, wpc, wev, rpc, connected>>
    /\ UNCHANGED <<codecVars, copyVars, clientVars, callVars, sideVars>>

\* e.Source.Name == c.GetNick(); GetNick takes the lock for its read
JoinGetNick ==
    /\ dpc = "join_getnick"
    /\ mu = "free"
    /\ dpc' = IF handled.Source[1].Name = GetNick THEN "join_self_send" ELSE "join_other_send"
    /\ UNCHANGED <<mu, wpc, wev, rpc, connected>>
    /\ UNCHANGED <<codecVars, copyVars, stateVars, clientVars, callVars, sideVars>>

\* the client itself has joined: c.Send(WHO), c.Send(MODE)
JoinSelfSend ==
    /\ dpc = "join_self_send"
    /\ sent' = <<OutEvent("WHO", <<handled.Params[1], "%tacuhnr,1">>),
                 OutEvent("MODE", <<handled.Params[1]>>)>>
    /\ dpc' = "join_self_lock"
    /\ UNCHANGED <<ownNick, ownIdent, ownHost, motd, attempted, resolver, joined>>
    /\ UNCHANGED <<mu, wpc, wev, rpc, connected>>
    /\ UNCHANGED <<codecVars, copyVars, stateVars, callVars, sideVars>>

\* c.state.mu.Lock() before the client's ident and host are written
JoinSelfLock ==
    /\ dpc = "join_self_lock"
    /\ Lock("intake")
    /\ dpc' = "join_self_ident"
    /\ UNCHANGED <<wpc, wev, rpc, connected>>
    /\ UNCHANGED <<codecVars, copyVars, stateVars, clientVars, callVars, sideVars>>

\* c.state.ident = ...; c.state.host = ...; Unlock(); return
JoinSelfIdent ==
    /\ dpc = "join_self_ident"
    /\ ownIdent' = handled.Source[1].Ident
    /\ ownHost' = handled.Source[1].Host
    /\ Unlock
    /\ dpc' = "idle"
    /\ UNCHANGED <<ownNick, motd, sent, attempted, resolver, joined>>
    /\ UNCHANGED <<wpc, wev, rpc, connected>>
    /\ UNCHANGED <<codecVars, copyVars, stateVars, callVars, sideVars>>

\* another user has joined: c.Send(WHO) for that user
JoinOtherSend ==
    /\ dpc = "join_other_send"
    /\ sent' = <<OutEvent("WHO", <<handled.Source[1].Name, "%tacuhnr,1">>)>>
    /\ dpc' = "idle"
    /\ UNCHANGED <<ownNick, ownIdent, ownHost, motd, attempted, resolver, joined>>
    /\ UNCHANGED <<mu, wpc, wev, rpc, connected>>
    /\ UNCHANGED <<codecVars, copyVars, stateVars, callVars, sideVars>>

\* handlePART up to c.GetNick(): the returns for e.Source == nil and for an
\* event without parameters
PartEnter(e) ==
    /\ dpc = "idle"
    /\ handled' = e
    /\ sent' = <<>>
    /\ dpc' = IF e.Source = <<>> \/ Len(e.Params) = 0 THEN "idle" ELSE "part_getnick"
    /\ UNCHANGED <<users, channels, crashed, mu, wpc, wev, rpc, connected>>
    /\ UNCHANGED <<ownNick, ownIdent, ownHost, motd, attempted, resolver, joined>>
    /\ UNCHANGED <<codecVars, copyVars, callVars, sideVars>>

\* e.Source.Name == c.GetNick()
PartGetNick ==
    /\ dpc = "part_getnick"
    /\ mu = "free"
    /\ dpc' = IF handled.Source[1].Name = GetNick THEN "part_self_lock" ELSE "part_other_lock"
    /\ UNCHANGED <<mu, wpc, wev, rpc, connected>>
    /\ UNCHANGED <<codecVars, copyVars, stateVars, clientVars, callVars, sideVars>>

\* c.state.mu.Lock() of either branch of handlePART
PartLock ==
    /\ dpc \in {"part_self_lock", "part_other_lock"}
    /\ Lock("intake")
    /\ dpc' = IF dpc = "part_self_lock" THEN "part_self_delete" ELSE "part_other_delete"
    /\ UNCHANGED <<wpc, wev, rpc, connected>>
    /\ UNCHANGED <<codecVars, copyVars, stateVars, clientVars, callVars, sideVars>>

\* deleteChannel(e.Params[0]) or deleteUser(e.Source.Name); Unlock(); return
PartDelete ==
    /\ dpc \in {"part_self_delete", "part_other_delete"}
    /\ LET r == IF dpc = "part_self_delete"
                THEN deleteChannel(users, channels, handled.Params[1])
                ELSE deleteUser(users, channels, handled.Source[1].Name) IN
        users' = r.users /\ channels' = r.channels
    /\ Unlock
    /\ dpc' = "idle"
    /\ UNCHANGED <<handled, crashed, wpc, wev, rpc, connected>>
    /\ UNCHANGED <<codecVars, copyVars, clientVars, callVars, sideVars>>

\* handleMOTD is entered; its first statement is the Lock()
MotdEnter(e) ==
    /\ dpc = "idle"
    /\ e.Command = RPL_MOTD => Len(motd) < MaxMotdLen
    /\ handled' = e
    /\ sent' = <<>>
    /\ dpc' = "motd_lock"
    /\ UNCHANGED <<users, channels, crashed, mu, wpc, wev, rpc, connected>>
    /\ UNCHANGED <<ownNick, ownIdent, ownHost, motd, attempted, resolver, joined>>
    /\ UNCHANGED <<codecVars, copyVars, callVars, sideVars>>

\* c.state.mu.Lock() of handleMOTD
MotdLock ==
    /\ dpc = "motd_lock"
    /\ Lock("intake")
    /\ dpc' = "motd_write"
    /\ UNCHANGED <<wpc, wev, rpc, connected>>
    /\ UNCHANGED <<codecVars, copyVars, stateVars, clientVars, callVars, sideVars>>

\* c.state.motd after handleMOTD: emptied by RPL_MOTDSTART, else grown by
\* the line, after a newline when something is there already
MotdAfter(md, e) ==
    IF e.Command = RPL_MOTDSTART
    THEN <<>>
    ELSE md \o (IF Len(md) # 0 THEN <<"\n">> ELSE <<>>)
            \o (IF e.Trailing # "" THEN <<e.Trailing>> ELSE <<>>)

\* the MOTD events handled since the last RPL_MOTDSTART, that one first;
\* none as long as no RPL_MOTDSTART has been handled
MotdLogAfter(log, e) ==
    IF e.Command = RPL_MOTDSTART THEN <<e>>
    ELSE IF log = <<>> THEN <<>> ELSE Append(log, e)

\* the body of handleMOTD; Unlock(); return
MotdWrite ==
    /\ dpc = "motd_write"
    /\ motd' = MotdAfter(motd, handled)
    /\ motdLog' = MotdLogAfter(motdLog, handled)
    /\ Unlock
    /\ dpc' = "idle"
    /\ UNCHANGED <<ownNick, ownIdent, ownHost, sent, attempted, resolver, joined>>
    /\ UNCHANGED <<wpc, wev, rpc, connected, serverOptions>>
    /\ UNCHANGED <<codecVars, copyVars, stateVars, callVars>>

\* handleMOTD(c, e) as one step of the intake path
handleMOTD(e) ==
    /\ ~crashed
    /\ handled' = e
    /\ joined' = JoinBefore
    /\ sent' = <<>>
    /\ motd' = MotdAfter(motd, e)
    /\ motdLog' = MotdLogAfter(motdLog, e)
    /\ UNCHANGED <<users, channels, crashed, ownNick, ownIdent, ownHost, attempted, resolver>>
    /\ UNCHANGED <<codecVars, copyVars, lockVars, callVars, serverOptions>>

\* the RPL_WELCOME handler: go handleConnect(c, e), and back to the intake
WelcomeDispatch(e) ==
    /\ dpc = "idle"
    /\ Len(wpc) < MaxWelcomes
    /\ handled' = e
    /\ sent' = <<>>
    /\ wpc' = Append(wpc, "start")
    /\ wev' = Append(wev, e)
    /\ connected' = Append(connected, 0)
    /\ UNCHANGED <<users, channels, crashed, mu, dpc, rpc>>
    /\ UNCHANGED <<ownNick, ownIdent, ownHost, motd, attempted, resolver, joined>>
    /\ UNCHANGED <<codecVars, copyVars, callVars, sideVars>>

\* goroutine i: c.state.nick = e.Params[0] when there are parameters
ConnectNick(i) ==
    /\ i \in DOMAIN wpc
    /\ wpc[i] = "start"
    /\ ownNick' = AfterNick(wev[i], ownNick)
    /\ wpc' = [wpc EXCEPT ![i] = "sleep"]
    /\ UNCHANGED <<ownIdent, ownHost, motd, sent, attempted, resolver, joined>>
    /\ UNCHANGED <<mu, dpc, wev, rpc, connected>>
    /\ UNCHANGED <<codecVars, copyVars, stateVars, callVars, sideVars>>

\* goroutine i: time.Sleep(2 * time.Second) is over
ConnectWake(i) ==
    /\ i \in DOMAIN wpc
    /\ wpc[i] = "sleep"
    /\ wpc' = [wpc EXCEPT ![i] = "run"]
    /\ UNCHANGED <<mu, dpc, wev, rpc, connected>>
    /\ UNCHANGED <<codecVars, copyVars, stateVars, clientVars, callVars, sideVars>>

\* goroutine i: c.RunHandlers(&Event{Command: CONNECTED, ...}), and the end
ConnectRun(i) ==
    /\ i \in DOMAIN wpc
    /\ wpc[i] = "run"
    /\ connected' = [connected EXCEPT ![i] = @ + 1]
    /\ wpc' = [wpc EXCEPT ![i] = "done"]
    /\ UNCHANGED <<mu, dpc, wev, rpc>>
    /\ UNCHANGED <<codecVars, copyVars, stateVars, clientVars, callVars, sideVars>>

\* an accessor of the store is entered by the application: Lock()
ReaderLock ==
    /\ rpc = "idle"
    /\ Lock("reader")
    /\ rpc' = "reading"
    /\ UNCHANGED <<dpc, wpc, wev, connected>>
    /\ UNCHANGED <<codecVars, copyVars, stateVars, clientVars, callVars, sideVars>>

\* the accessor has read what it returns: Unlock()
ReaderUnlock ==
    /\ rpc = "reading"
    /\ Unlock
    /\ rpc' = "idle"
    /\ UNCHANGED <<dpc, wpc, wev, connected>>
    /\ UNCHANGED <<codecVars, copyVars, stateVars, clientVars, callVars, sideVars>>

\* JOIN and PART as the intake may see them: without source, without or
\* with a bad parameter, of another user and of the client itself
LockJoins ==
    { [Command |-> "JOIN", Source |-> x[1], Params |-> x[2], Trailing |-> "Real"] :
        x \in { <<<<>>, <<"#x">>>>,
                <<From("A"), <<>>>>,
                <<From("A"), <<"bad">>>>,
                <<From("A"), <<"#x">>>>,
                <<From("A"), <<"#x", "acc">>>>,
                <<From(ConfigNick), <<"#x">>>> } }

LockParts ==
    { [Command |-> "PART", Source |-> x[1], Params |-> x[2], Trailing |-> ""] :
        x \in { <<<<>>, <<"#x">>>>,
                <<From("A"), <<>>>>,
                <<From("A"), <<"#x">>>>,
                <<From(ConfigNick), <<"#x">>>> } }

LockMotds ==
    { [Command |-> RPL_MOTDSTART, Source |-> From("srv"), Params |-> <<"me">>,
       Trailing |-> "- Message of the day -"],
      [Command |-> RPL_MOTD, Source |-> From("srv"), Params |-> <<"me">>,
       Trailing |-> "- line -"] }

LockWelcomes ==
    { [Command |-> RPL_WELCOME, Source |-> From("srv"), Params |-> p,
       Trailing |-> "Welcome"] : p \in {<<>>, <<"A">>} }

Goroutines == 1..MaxWelcomes

NextLock ==
    \/ \E e \in LockJoins : JoinEnter(e)
    \/ JoinLock
    \/ JoinCreate
    \/ JoinWriteExtras
    \/ JoinGetNick
    \/ JoinSelfSend
    \/ JoinSelfLock
    \/ JoinSelfIdent
    \/ JoinOtherSend
    \/ \E e \in LockParts : PartEnter(e)
    \/ PartGetNick
    \/ PartLock
    \/ PartDelete
    \/ \E e \in LockMotds : MotdEnter(e)
    \/ MotdLock
    \/ MotdWrite
    \/ \E e \in LockWelcomes : WelcomeDispatch(e)
    \/ \E i \in Goroutines : ConnectNick(i)
    \/ \E i \in Goroutines : ConnectWake(i)
    \/ \E i \in Goroutines : ConnectRun(i)
    \/ ReaderLock
    \/ ReaderUnlock

\* ------------------------------------------------------------------------
\* handleNAMES. The nick list is a string of octets, as ParseSource needs
\* it; nicks, idents and hosts go into the store as the strings the octets
\* spell. parseUserPrefix, IsValidNick and IsValidChannel are not part of
\* the sources at hand and follow the specification's description.
\* ------------------------------------------------------------------------
RPL_NAMREPLY == "353"

\* the string a sequence of octets spells
RECURSIVE Str(_)
Str(s) == IF s = <<>> THEN "" ELSE s[1] \o Str(Tail(s))

\* strings.Contains(s, c) for a one-octet c
Contains(s, c) == \E k \in 1..Len(s) : s[k] = c

\* the mode-prefix characters of a nick list entry
PrefixChars == {"~", "&", "@", "%", "+"}

\* parseUserPrefix(raw): the leading mode prefixes, what follows them, and
\* whether anything follows them
parseUserPrefix(r) ==
    LET n == IF \E k \in 1..Len(r) : r[k] \notin PrefixChars
             THEN (CHOOSE k \in 1..Len(r) :
                      r[k] \notin PrefixChars /\ \A m \in 1..(k - 1) : r[m] \in PrefixChars) - 1
             ELSE Len(r)
    IN  [modes |-> SubSeq(r, 1, n), nick |-> SubSeq(r, n + 1, Len(r)), ok |-> n < Len(r)]

IsValidNick(n) == n \in ValidNicks

IsValidChannel(c) == c \in ValidChannels

\* the loop of handleNAMES from parts[i] on (i 0-based); host and ident are
\* the variables declared before the loop
RECURSIVE NamesLoop(_, _, _, _, _, _, _)
NamesLoop(us, chs, channel, parts, i, host, ident) ==
    IF i >= Len(parts) THEN [users |-> us, channels |-> chs]
    ELSE
        LET p == parseUserPrefix(parts[i + 1]) IN
        IF ~p.ok THEN NamesLoop(us, chs, channel, parts, i + 1, host, ident)
        ELSE
            LET userhost == Contains(p.nick, prefixHost)
                s == ParseSource(p.nick)
                host2 == IF userhost THEN s.Host ELSE host
                nick2 == IF userhost THEN s.Name ELSE p.nick
                ident2 == IF userhost THEN s.Ident ELSE ident
            IN  IF ~IsValidNick(Str(nick2))
                THEN NamesLoop(us, chs, channel, parts, i + 1, host2, ident2)
                ELSE
                    LET r == createUserIfNotExists(us, chs, channel, Str(nick2)) IN
                    IF ~r.ok
                    THEN NamesLoop(us, chs, channel, parts, i + 1, host2, ident2)
                    ELSE NamesLoop(
                            [r.users EXCEPT ![Str(nick2)] =
                                [@ EXCEPT !.Host = IF host2 # <<>> THEN Str(host2) ELSE @,
                                          !.Ident = IF ident2 # <<>> THEN Str(ident2) ELSE @,
                                          !.Perms = MapSet(@, channel, Str(p.modes))]],
                            r.channels, channel, parts, i + 1, host2, ident2)

\* what handleNAMES does to the store
NamesEffect(us, chs, e) ==
    IF Len(e.Params) < 1 \/ ~IsValidChannel(e.Params[Len(e.Params)])
    THEN [users |-> us, channels |-> chs]
    ELSE NamesLoop(us, chs, e.Params[Len(e.Params)], Split(e.Trailing, " "), 0, <<>>, <<>>)

\* handleNAMES(c, e)
handleNAMES(e) ==
    /\ ~crashed
    /\ handled' = e
    /\ joined' = JoinBefore
    /\ sent' = <<>>
    /\ LET r == NamesEffect(users, channels, e) IN
        users' = r.users /\ channels' = r.channels
    /\ UNCHANGED <<crashed, ownNick, ownIdent, ownHost, motd, attempted, resolver>>
    /\ UNCHANGED <<codecVars, copyVars, lockVars, callVars, sideVars>>

\* the entries of a nick list: plain, with mode prefixes, with
\* userhost-in-names data, and entries no nick can be taken from
NamesEntries ==
    { <<"A">>, <<"@", "A">>, <<"B">>,
      <<"B", "!", "u", "@", "h">>, <<"+", "A", "!", "v", "@", "g">>, <<"A", "@", "g">>,
      <<"@">>, <<"A", "!", "u">> }

\* the most entries of one reply
MaxNamesEntries == 2

NamesLists == UNION { [1..n -> NamesEntries] : n \in 0..MaxNamesEntries }

NamesEvents ==
    { [Command |-> RPL_NAMREPLY, Source |-> From("srv"), Params |-> p,
       Trailing |-> Join(l, " ")] :
        p \in {<<>>, <<"me", "=", "#x">>, <<"me", "=", "bad">>}, l \in NamesLists }

NextNames == \E e \in NamesEvents : handleNAMES(e)

\* ------------------------------------------------------------------------
\* NICK and QUIT, and the events that change who is in which channel
\* ------------------------------------------------------------------------
\* what handleNICK does to the store and to the client's own nick
NickEffect(us, chs, nick, e) ==
    IF e.Source = <<>> THEN [users |-> us, channels |-> chs, nick |-> nick]
    ELSE IF Len(e.Params) = 1 THEN renameUser(us, chs, nick, e.Source[1].Name, e.Params[1])
    ELSE IF e.Trailing # "" THEN renameUser(us, chs, nick, e.Source[1].Name, e.Trailing)
    ELSE [users |-> us, channels |-> chs, nick |-> nick]

\* handleNICK(c, e)
handleNICK(e) ==
    /\ ~crashed
    /\ handled' = e
    /\ joined' = JoinBefore
    /\ sent' = <<>>
    /\ LET r == NickEffect(users, channels, ownNick, e) IN
        users' = r.users /\ channels' = r.channels /\ ownNick' = r.nick
    /\ UNCHANGED <<crashed, ownIdent, ownHost, motd, attempted, resolver>>
    /\ UNCHANGED <<codecVars, copyVars, lockVars, callVars, sideVars>>

QuitEffectIgnored(us, chs, e) == [users |-> us, channels |-> chs]

\* what handleQUIT does to the store
QuitEffect(us, chs, e) ==
    IF e.Source = <<>> THEN [users |-> us, channels |-> chs]
    ELSE deleteUser(us, chs, e.Source[1].Name)

\* handleQUIT(c, e)
handleQUIT(e) ==
    /\ ~crashed
    /\ handled' = e
    /\ joined' = JoinBefore
    /\ sent' = <<>>
    /\ LET r == QuitEffect(users, channels, e) IN
        users' = r.users /\ channels' = r.channels
    /\ UNCHANGED <<crashed, ownNick, ownIdent, ownHost, motd, attempted, resolver>>
    /\ UNCHANGED <<codecVars, copyVars, lockVars, callVars, sideVars>>

MemberSources == {<<>>, From("A"), From(ConfigNick)}

MemberJoins ==
    { [Command |-> "JOIN", Source |-> s, Params |-> <<ch>>, Trailing |-> ""] :
        s \in MemberSources \ {<<>>}, ch \in {"#x", "#y"} }

MemberParts ==
    { [Command |-> "PART", Source |-> s, Params |-> <<ch>>, Trailing |-> ""] :
        s \in MemberSources, ch \in {"#x", "#y"} }

MemberKicks ==
    { [Command |-> "KICK", Source |-> From("A"), Params |-> <<ch, n>>, Trailing |-> "out"] :
        ch \in {"#x", "#y"}, n \in {"A", ConfigNick} } \cup
    { [Command |-> "KICK", Source |-> <<>>, Params |-> <<"#x">>, Trailing |-> "out"] }

MemberQuits ==
    { [Command |-> "QUIT", Source |-> s, Params |-> <<>>, Trailing |-> "bye"] :
        s \in MemberSources }

\* NICK with the new nick as the only parameter, or as the trailing one
MemberNicks ==
    { [Command |-> "NICK", Source |-> s, Params |-> <<"B">>, Trailing |-> ""] :
        s \in MemberSources } \cup
    { [Command |-> "NICK", Source |-> From("B"), Params |-> <<>>, Trailing |-> t] :
        t \in {"", "A"} }

MemberWhos ==
    { [Command |-> RPL_WHOREPLY, Source |-> From("srv"),
       Params |-> <<"me", "#x", "u", "h", "srv", "B">>, Trailing |-> ""] }

MemberNames ==
    { [Command |-> RPL_NAMREPLY, Source |-> From("srv"), Params |-> <<"me", "=", "#y">>,
       Trailing |-> t] : t \in { <<"A">>, <<"B", "!", "u", "@", "h", " ", "A">> } }

NextMember ==
    \/ \E e \in MemberJoins : handleJOIN(e)
    \/ \E e \in MemberParts : handlePART(e)
    \/ \E e \in MemberKicks : handleKICK(e)
    \/ \E e \in MemberQuits : handleQUIT(e)
    \/ \E e \in MemberNicks : handleNICK(e)
    \/ \E e \in MemberWhos : handleWHO(e)
    \/ \E e \in MemberNames : handleNAMES(e)

\* ------------------------------------------------------------------------
\* The other built-in handlers statement by statement. All but PING, PONG
\* and the nick collision handler have one shape: the returns for events
\* they do not take, c.state.mu.Lock(), the work on the store, and
\* c.state.mu.Unlock() on every way out. createChanIfNotExists, lookupUsers
\* and Commands.Pong are not part of the sources at hand and follow the
\* specification's description.
\* ------------------------------------------------------------------------
RPL_MYINFO == "004"
RPL_ISUPPORT == "005"

\* strings.HasSuffix(s, suffix)
HasSuffix(s, suffix) ==
    Len(s) >= Len(suffix) /\ SubSeq(s, Len(s) - Len(suffix) + 1, Len(s)) = suffix

ThisServer == <<"t", "h", "i", "s", " ", "s", "e", "r", "v", "e", "r">>

\* the handlers that work on the store between one Lock() and one Unlock();
\* handleKICK is "kickself" or "kickother" once it has compared the nick
LockingHandlers ==
    {"topic", "who", "kickself", "kickother", "nick", "quit", "myinfo", "isupport",
     "names", "active"}

\* the channel handleTOPIC takes from the parameters
TopicName(e) == IF Len(e.Params) = 1 THEN e.Params[1] ELSE e.Params[Len(e.Params)]

\* handleTOPIC between Lock() and Unlock(): createChanIfNotExists gives nil
\* for a name that is no channel's
TopicEffect(chs, e) ==
    IF ~IsValidChannel(TopicName(e)) THEN chs
    ELSE LET c == IF TopicName(e) \in DOMAIN chs THEN chs[TopicName(e)] ELSE NewChannel
         IN  MapSet(chs, TopicName(e), [c EXCEPT !.Topic = e.Trailing])

\* handleWHO between Lock() and Unlock(), the fields f taken from the event
WhoEffect(us, chs, e) ==
    LET f == WhoFields(e)
        r == createUserIfNotExists(us, chs, f.channel, f.nick)
    IN  IF ~r.ok THEN [users |-> us, channels |-> chs]
        ELSE [users |-> [r.users EXCEPT ![f.nick] =
                            [@ EXCEPT !.Host = f.host,
                                      !.Ident = f.ident,
                                      !.Name = e.Trailing,
                                      !.Account = IF f.account # "0" THEN f.account ELSE @]],
              channels |-> r.channels]

\* handleMYINFO between Lock() and Unlock()
MyinfoEffect(opts, e) == MapSet(MapSet(opts, "SERVER", e.Params[2]), "VERSION", e.Params[3])

\* the loop of handleISUPPORT from e.Params[i] on (i 0-based)
RECURSIVE IsupportLoop(_, _, _)
IsupportLoop(opts, params, i) ==
    IF i >= Len(params) THEN opts
    ELSE LET j == IndexByte(params[i + 1], "=") IN
         IF j < 1 \/ (j + 1) = Len(params[i + 1])
         THEN IsupportLoop(MapSet(opts, Str(params[i + 1]), ""), params, i + 1)
         ELSE IsupportLoop(MapSet(opts, Str(Slice(params[i + 1], 0, j)),
                                  Str(SliceFrom(params[i + 1], j + 1))), params, i + 1)

\* updateLastActive between Lock() and Unlock(): lookupUsers gives the
\* users of that nick
ActiveEffect(us, e) ==
    IF e.Source[1].Name \in DOMAIN us
    THEN [us EXCEPT ![e.Source[1].Name] = [@ EXCEPT !.LastActive = "now"]]
    ELSE us

\* what handler h has done to the store, to the client's own nick and to
\* the server options when it unlocks
BodyEffect(h, e) ==
    LET same == [users |-> users, channels |-> channels, nick |-> ownNick,
                 options |-> serverOptions]
        with(r) == [same EXCEPT !.users = r.users, !.channels = r.channels]
    IN  CASE h = "topic" -> [same EXCEPT !.channels = TopicEffect(channels, e)]
          [] h = "who" -> with(WhoEffect(users, channels, e))
          [] h = "kickself" -> with(deleteChannel(users, channels, e.Params[1]))
          [] h = "kickother" -> with(deleteUser(users, channels, KickedNick(e)))
          [] h = "nick" -> [with(NickEffect(users, channels, ownNick, e))
                               EXCEPT !.nick = NickEffect(users, channels, ownNick, e).nick]
          [] h = "quit" -> with(QuitEffect(users, channels, e))
          [] h = "myinfo" -> [same EXCEPT !.options = MyinfoEffect(serverOptions, e)]
          [] h = "isupport" -> [same EXCEPT !.options = IsupportLoop(serverOptions, e.Params, 1)]
          [] h = "names" -> with(NamesEffect(users, channels, e))
          [] h = "active" -> [same EXCEPT !.users = ActiveEffect(users, e)]

\* where handler h is after its first statements: back at the intake for an
\* event it does not take, at its Lock(), at c.GetNick() or at its send;
\* handleWHO panics, before any lock, on a short plain reply
FirstPc(h, e) ==
    CASE h = "topic" -> IF Len(e.Params) = 0 THEN "idle" ELSE "topic_lock"
      [] h = "who" -> IF WhoFields(e).status = "ok" THEN "who_lock"
                      ELSE IF WhoFields(e).status = "panic" THEN "panicked" ELSE "idle"
      [] h = "kick" -> IF Len(e.Params) < 2 THEN "idle" ELSE "kick_getnick"
      [] h \in {"nick", "quit", "active"} -> IF e.Source = <<>> THEN "idle" ELSE h \o "_lock"
      [] h = "myinfo" -> IF Len(e.Params) < 3 THEN "idle" ELSE "myinfo_lock"
      [] h = "isupport" ->
            IF ~HasSuffix(e.Trailing, ThisServer) \/ Len(e.Params) < 2
            THEN "idle" ELSE "isupport_lock"
      [] h = "names" ->
            IF Len(e.Params) < 1 \/ ~IsValidChannel(e.Params[Len(e.Params)])
            THEN "idle" ELSE "names_lock"
      [] h = "ping" -> "ping_send"
      [] h = "pong" -> "idle"
      [] h = "collide" -> "collide_send"

\* the intake runs handler h on event e, up to its Lock(), GetNick() or send
HandlerEnter(h, e) ==
    /\ dpc = "idle"
    /\ ~crashed
    /\ handled' = e
    /\ sent' = <<>>
    /\ dpc' = FirstPc(h, e)
    /\ crashed' = (h = "who" /\ WhoFields(e).status = "panic")
    /\ UNCHANGED <<users, channels, mu, wpc, wev, rpc, connected>>
    /\ UNCHANGED <<ownNick, ownIdent, ownHost, motd, attempted, resolver, joined>>
    /\ UNCHANGED <<codecVars, copyVars, callVars, sideVars>>

\* e.Params[1] == c.GetNick() of handleKICK; GetNick takes the lock for its
\* read
KickGetNick ==
    /\ dpc = "kick_getnick"
    /\ mu = "free"
    /\ dpc' = IF KickedNick(handled) = GetNick THEN "kickself_lock" ELSE "kickother_lock"
    /\ UNCHANGED <<mu, wpc, wev, rpc, connected>>
    /\ UNCHANGED <<codecVars, copyVars, stateVars, clientVars, callVars, sideVars>>

\* c.state.mu.Lock() of the handler
HandlerLock ==
    \E h \in LockingHandlers :
        /\ dpc = h \o "_lock"
        /\ Lock("intake")
        /\ dpc' = h \o "_body"
        /\ UNCHANGED <<wpc, wev, rpc, connected>>
        /\ UNCHANGED <<codecVars, copyVars, stateVars, clientVars, callVars, sideVars>>

HandlerBodyKeepingLock ==
    \E h \in LockingHandlers :
        /\ dpc = h \o "_body"
        /\ LET r == BodyEffect(h, handled) IN
            /\ users' = r.users
            /\ channels' = r.channels
            /\ ownNick' = r.nick
            /\ serverOptions' = r.options
        /\ IF h = "topic" /\ ~IsValidChannel(TopicName(handled)) THEN UNCHANGED mu ELSE Unlock
        /\ dpc' = "idle"
        /\ UNCHANGED <<handled, crashed, wpc, wev, rpc, connected, motdLog>>
        /\ UNCHANGED <<ownIdent, ownHost, motd, sent, attempted, resolver, joined>>
        /\ UNCHANGED <<codecVars, copyVars, callVars>>

\* the work of the handler on the store; c.state.mu.Unlock(); return
HandlerBody ==
    \E h \in LockingHandlers :
        /\ dpc = h \o "_body"
        /\ LET r == BodyEffect(h, handled) IN
            /\ users' = r.users
            /\ channels' = r.channels
            /\ ownNick' = r.nick
            /\ serverOptions' = r.options
        /\ Unlock
        /\ dpc' = "idle"
        /\ UNCHANGED <<handled, crashed, wpc, wev, rpc, connected, motdLog>>
        /\ UNCHANGED <<ownIdent, ownHost, motd, sent, attempted, resolver, joined>>
        /\ UNCHANGED <<codecVars, copyVars, callVars>>

\* handlePING: c.Commands.Pong(e.Trailing)
PingSend ==
    /\ dpc = "ping_send"
    /\ sent' = <<OutEvent("PONG", <<handled.Trailing>>)>>
    /\ dpc' = "idle"
    /\ UNCHANGED <<ownNick, ownIdent, ownHost, motd, attempted, resolver, joined>>
    /\ UNCHANGED <<mu, wpc, wev, rpc, connected>>
    /\ UNCHANGED <<codecVars, copyVars, stateVars, callVars, sideVars>>

\* nickCollisionHandler: c.Commands.Nick(...) of the nick c.GetNick() gives,
\* for which GetNick takes the lock
CollideSend ==
    /\ dpc = "collide_send"
    /\ mu = "free"
    /\ sent' = CommandsNick(CollisionNick)
    /\ attempted' = CollisionNick
    /\ dpc' = "idle"
    /\ UNCHANGED <<ownNick, ownIdent, ownHost, motd, resolver, joined>>
    /\ UNCHANGED <<mu, wpc, wev, rpc, connected>>
    /\ UNCHANGED <<codecVars, copyVars, stateVars, callVars, sideVars>>

\* an event of command cmd from the server
ServerEvent(cmd, params, trailing) ==
    [Command |-> cmd, Source |-> From("srv"), Params |-> params, Trailing |-> trailing]

\* the handlers with the events the intake runs them on: for each handler
\* an event it takes and the events it returns on at once
Dispatches ==
    { <<"topic", [Command |-> "TOPIC", Source |-> From("A"), Params |-> p, Trailing |-> "t"]>> :
        p \in {<<>>, <<"#x">>, <<"bad">>} } \cup
    { <<"who", ServerEvent(RPL_WHOREPLY, p, "Real")>> :
        p \in {<<"me", "#x">>, <<"me", "#x", "u", "h", "srv", "A">>} } \cup
    { <<"who", ServerEvent(RPL_WHOSPCRPL, p, "Real")>> :
        p \in {<<"me", "2">>, <<"me", "1", "bad", "u", "h", "A", "0">>} } \cup
    { <<"kick", [Command |-> "KICK", Source |-> <<>>, Params |-> p, Trailing |-> "out"]>> :
        p \in {<<"#x">>, <<"#x", "A">>, <<"#x", ConfigNick>>} } \cup
    { <<"active", [Command |-> "KICK", Source |-> s, Params |-> <<"#x", "A">>, Trailing |-> "out"]>> :
        s \in {<<>>, From("A")} } \cup
    { <<"nick", [Command |-> "NICK", Source |-> s, Params |-> <<"A">>, Trailing |-> ""]>> :
        s \in {<<>>, From("A")} } \cup
    { <<"quit", [Command |-> "QUIT", Source |-> s, Params |-> <<>>, Trailing |-> "bye"]>> :
        s \in {<<>>, From("A")} } \cup
    { <<"myinfo", ServerEvent(RPL_MYINFO, p, "")>> :
        p \in {<<"me", "srv">>, <<"me", "srv", "v1", "io", "nt">>} } \cup
    { <<"isupport", ServerEvent(RPL_ISUPPORT, x[1], x[2])>> :
        x \in { <<<<<<"m", "e">>, <<"A", "=", "1">>, <<"B">>, <<"C", "=">>>>, ThisServer>>,
                <<<<<<"m", "e">>>>, ThisServer>>,
                <<<<<<"m", "e">>, <<"A", "=", "1">>>>, <<"b", "o", "u", "n", "c", "e">>>> } } \cup
    { <<"names", ServerEvent(RPL_NAMREPLY, p, <<"A">>)>> :
        p \in {<<>>, <<"me", "=", "bad">>, <<"me", "=", "#x">>} } \cup
    { <<"ping", [Command |-> "PING", Params |-> <<>>, Trailing |-> "srv"]>>,
      <<"pong", [Command |-> "PONG", Params |-> <<>>, Trailing |-> "srv"]>>,
      <<"collide", ServerEvent(ERR_NICKNAMEINUSE, <<"*", "me">>, "Nickname is already in use")>> }

\* JOIN, PART and MOTD events for the handlers that have their own steps:
\* of the client and of another user, and without source
DisciplineJoins ==
    { [Command |-> "JOIN", Source |-> s, Params |-> <<"#x">>, Trailing |-> ""] :
        s \in {<<>>, From("A"), From(ConfigNick)} }

DisciplineParts ==
    { [Command |-> "PART", Source |-> s, Params |-> <<"#x">>, Trailing |-> ""] :
        s \in {<<>>, From("A"), From(ConfigNick)} }

DisciplineMotds == {ServerEvent(RPL_MOTDSTART, <<"me">>, "- Message of the day -")}

NextDiscipline ==
    \/ \E d \in Dispatches : HandlerEnter(d[1], d[2])
    \/ KickGetNick
    \/ HandlerLock
    \/ HandlerBody
    \/ PingSend
    \/ CollideSend
    \/ \E e \in DisciplineJoins : JoinEnter(e)
    \/ JoinLock
    \/ JoinCreate
    \/ JoinWriteExtras
    \/ JoinGetNick
    \/ JoinSelfSend
    \/ JoinSelfLock
    \/ JoinSelfIdent
    \/ JoinOtherSend
    \/ \E e \in DisciplineParts : PartEnter(e)
    \/ PartGetNick
    \/ PartLock
    \/ PartDelete
    \/ \E e \in DisciplineMotds : MotdEnter(e)
    \/ MotdLock
    \/ MotdWrite
    \/ ReaderLock
    \/ ReaderUnlock

\* ------------------------------------------------------------------------
\* The message of the day as the server sends it: RPL_MOTDSTART, then the
\* lines, any of them empty
\* ------------------------------------------------------------------------
\* the MOTD lines handled after one RPL_MOTDSTART
MaxMotdLines == 4

MotdEvents ==
    { [Command |-> RPL_MOTDSTART, Source |-> From("srv"), Params |-> <<"me">>,
       Trailing |-> "- Message of the day -"] } \cup
    { [Command |-> RPL_MOTD, Source |-> From("srv"), Params |-> <<"me">>,
       Trailing |-> t] : t \in {"", "a", "b"} }

NextMotd ==
    \E e \in MotdEvents :
        /\ e.Command = RPL_MOTD =>
              (Len(motdLog) <= MaxMotdLines /\ Len(motd) < 2 * MaxMotdLines)
        /\ handleMOTD(e)

\* ------------------------------------------------------------------------
\* The Tags map as a state machine: an application calls Set, Get, Remove,
\* Bytes (String is the same octets) and ParseTags on one map
\* ------------------------------------------------------------------------
\* the longest value handed to Set when escaping is looked at
MaxValueLen == 2

\* t.Set(k, v); o is the order of the range loop inside t.Len()
CallTagsSet(k, v, o) ==
    /\ LET r == TagsSet(tags, k, v, o) IN
        /\ tags' = r.tags
        /\ call' = [op |-> "Set", key |-> k, value |-> v, err |-> r.err]
    /\ UNCHANGED <<codecVars, copyVars, stateVars, clientVars, lockVars, sideVars>>

\* t.Get(k); the record keeps the value that a successful Set of k handed
\* in when that Set is the call just before
CallTagsGet(k) ==
    /\ LET r == TagsGet(tags, k) IN
        call' = [op |-> "Get", key |-> k, tag |-> r.tag, success |-> r.success,
                 set |-> IF call.op = "Set" /\ call.key = k /\ call.err = "nil"
                         THEN <<call.value>> ELSE <<>>]
    /\ UNCHANGED tags
    /\ UNCHANGED <<codecVars, copyVars, stateVars, clientVars, lockVars, sideVars>>

\* t.Remove(k)
CallTagsRemove(k) ==
    /\ LET r == TagsRemove(tags, k) IN
        /\ tags' = r.tags
        /\ call' = [op |-> "Remove", key |-> k, success |-> r.success]
    /\ UNCHANGED <<codecVars, copyVars, stateVars, clientVars, lockVars, sideVars>>

\* t.Bytes() and t.String(), the range loop taking order o
CallTagsBytes(o) ==
    /\ call' = [op |-> "Bytes", out |-> TagsBytes(tags, o)]
    /\ UNCHANGED tags
    /\ UNCHANGED <<codecVars, copyVars, stateVars, clientVars, lockVars, sideVars>>

\* t = ParseTags(r)
CallParseTags(r) ==
    /\ tags' = ParseTags(r)
    /\ call' = [op |-> "ParseTags", raw |-> r]
    /\ UNCHANGED <<codecVars, copyVars, stateVars, clientVars, lockVars, sideVars>>

\* values with every octet that is escaped and the letters of the escapes
EscapeAlphabet == {";", " ", BS, CR, LF, ":", "s", "n"}

EscapeValues == Strings(EscapeAlphabet, MaxValueLen)

EscapeKeys == {<<"k">>}

NextEscape ==
    \/ \E k \in EscapeKeys, v \in EscapeValues, o \in Orders(tags) : CallTagsSet(k, v, o)
    \/ \E k \in EscapeKeys \cup {<<"j">>} : CallTagsGet(k)
    \/ \E k \in EscapeKeys : CallTagsRemove(k)

\* keys: valid ones, the empty one and one with an octet validTag refuses
CeilingKeys == {<<"a", "a">>, <<"b">>, <<"c">>, <<>>, <<"a", " ">>}

\* values: none, one that grows when encoded, and one that with its key
\* and the key "aa" fills the ceiling to the last octet
CeilingValues == {<<>>, <<";">>, Pad(maxTagLength - 6)}

\* tag segments as a server may send them: short, and with a value longer
\* than the ceiling
CeilingRaws ==
    { <<"c", "=", "v", ";", "b">>,
      <<"b", "=">> \o Pad(maxTagLength + 10),
      <<"c", ";", "b", "=">> \o Pad(maxTagLength + 10) }

\* the string t.String() has just returned, when that is the last call
StringReturned == IF call.op = "Bytes" THEN {call.out} ELSE {}

NextCeiling ==
    \/ \E k \in CeilingKeys, v \in CeilingValues, o \in Orders(tags) : CallTagsSet(k, v, o)
    \/ \E k \in CeilingKeys : CallTagsRemove(k)
    \/ \E o \in Orders(tags) : CallTagsBytes(o)
    \/ \E r \in CeilingRaws \cup StringReturned : CallParseTags(r)

\* ------------------------------------------------------------------------
\* Sources as an application handles them: ParseSource on a string,
\* String / IsHostmask / IsServer on a Source
\* ------------------------------------------------------------------------
\* the longest string handed to ParseSource
MaxSourceLen == 5

\* ParseSource(r); the record keeps the Source whose String() r is, when
\* that String() is the call just before
CallParseSource(r) ==
    /\ call' = [op |-> "ParseSource", raw |-> r,
                status |-> IF ParseSourceInRange(r) THEN "ok" ELSE "panic",
                src |-> IF ParseSourceInRange(r) THEN ParseSource(r) ELSE MkSource(<<>>, <<>>, <<>>),
                of |-> IF call.op = "String" /\ call.out = r THEN <<call.src>> ELSE <<>>]
    /\ UNCHANGED <<codecVars, copyVars, stateVars, clientVars, lockVars, tags, sideVars>>

\* s.String()
CallSourceString(s) ==
    /\ call' = [op |-> "String", src |-> s, out |-> SourceString(s)]
    /\ UNCHANGED <<codecVars, copyVars, stateVars, clientVars, lockVars, tags, sideVars>>

\* src.IsHostmask() on the Source ParseSource has just returned
CallIsHostmask ==
    /\ call.op = "ParseSource" /\ call.status = "ok"
    /\ call' = [op |-> "IsHostmask", raw |-> call.raw, src |-> call.src,
                is |-> IsHostmask(call.src)]
    /\ UNCHANGED <<codecVars, copyVars, stateVars, clientVars, lockVars, tags, sideVars>>

\* src.IsServer() on the Source ParseSource has just returned
CallIsServer ==
    /\ call.op = "ParseSource" /\ call.status = "ok"
    /\ call' = [op |-> "IsServer", raw |-> call.raw, src |-> call.src,
                is |-> IsServer(call.src)]
    /\ UNCHANGED <<codecVars, copyVars, stateVars, clientVars, lockVars, tags, sideVars>>

SourceAlphabet == {"n", prefixIdent, prefixHost}

\* strings whose three parts differ, in and out of the four shapes
SourceExamples ==
    { <<"n", prefixIdent, "u", prefixHost, "h">>,
      <<"n", "n", prefixIdent, "u", prefixHost, "h", "h">>,
      <<"n", prefixHost, "h">>,
      <<"n", prefixIdent, "u">>,
      <<"n", prefixHost, "h", prefixIdent, "u">> }

SourceRaws == Strings(SourceAlphabet, MaxSourceLen) \cup SourceExamples

\* Sources an application builds by hand: every field empty or not, and a
\* name that is not one a server would send
SourceFields == {<<>>, <<"n">>, <<"u", "h">>}

SourceStructs ==
    {MkSource(n, u, h) : n \in SourceFields \cup {<<"n", prefixHost>>},
                         u \in SourceFields, h \in SourceFields}

\* the string s.String() has just returned, when that is the last call
SourceStringReturned == IF call.op = "String" THEN {call.out} ELSE {}

NextSource ==
    \/ \E r \in SourceRaws \cup SourceStringReturned : CallParseSource(r)
    \/ \E s \in SourceStructs : CallSourceString(s)
    \/ CallIsHostmask
    \/ CallIsServer

\* ------------------------------------------------------------------------
\* A caller that checks its budget: e.Len(), then e.Bytes() on the same
\* Event
\* ------------------------------------------------------------------------
\* n := e.Len()
CallEventLen(e, o) ==
    /\ call' = [op |-> "Len", e |-> e, len |-> EventLen(e, o)]
    /\ UNCHANGED <<codecVars, copyVars, stateVars, clientVars, lockVars, tags, sideVars>>

\* b := e.Bytes() on the Event whose Len() has just been taken
CallEventBytes(o) ==
    /\ call.op = "Len"
    /\ call' = [op |-> "EventBytes", e |-> call.e, len |-> call.len, order |-> o,
                bytes |-> Bytes(call.e, o)]
    /\ UNCHANGED <<codecVars, copyVars, stateVars, clientVars, lockVars, tags, sideVars>>

\* the Event the caller holds
CalledEvent == IF call.op = "Len" THEN call.e ELSE ZeroEvent

\* every combination of Tags, Source, Params and Trailing, and lines over
\* the limit or with line terminators
LenEvents ==
    { MkEvent(s, t, <<"P">>, p, tr, et) :
        s \in SourceChoices, t \in TagChoices, p \in ParamChoices,
        tr \in {<<>>, <<"x">>, <<"x", " ", "y">>}, et \in BOOLEAN }
    \cup LongEvents \cup InjectionEvents

NextLen ==
    \/ \E e \in LenEvents : \E o \in TagOrders(e) : CallEventLen(e, o)
    \/ \E o \in TagOrders(CalledEvent) : CallEventBytes(o)

\* ------------------------------------------------------------------------
\* Specifications
\* ------------------------------------------------------------------------
InitLock ==
    /\ mu = "free"
    /\ dpc = "idle"
    /\ wpc = <<>>
    /\ wev = <<>>
    /\ rpc = "idle"
    /\ connected = <<>>

InitCall ==
    /\ call = [op |-> "none"]
    /\ tags = EmptyMap

InitSide ==
    /\ motdLog = <<>>
    /\ serverOptions = EmptyMap

Init ==
    InitCodec /\ InitCopy /\ InitState /\ InitClient /\ InitLock /\ InitCall /\ InitSide

SpecCodec == Init /\ [][NextCodec]_vars

SpecCopy == Init /\ [][NextCopy]_vars

SpecState == Init /\ [][NextState]_vars

SpecTrack == Init /\ [][NextTrack]_vars

SpecNick == Init /\ [][NextNick]_vars

SpecLock == Init /\ [][NextLock]_vars

SpecEscape == Init /\ [][NextEscape]_vars

SpecCeiling == Init /\ [][NextCeiling]_vars

SpecSource == Init /\ [][NextSource]_vars

SpecLen == Init /\ [][NextLen]_vars

SpecMotd == Init /\ [][NextMotd]_vars

SpecNames == Init /\ [][NextNames]_vars

SpecMember == Init /\ [][NextMember]_vars

SpecDiscipline == Init /\ [][NextDiscipline]_vars

\* every goroutine that go has started is scheduled, its Sleep ends, and
\* RunHandlers returns
SpecLockFair ==
    /\ SpecLock
    /\ \A i \in Goroutines :
          WF_vars(ConnectNick(i)) /\ WF_vars(ConnectWake(i)) /\ WF_vars(ConnectRun(i))

\* ------------------------------------------------------------------------
\* What the message grammar says of a line, used to state the properties
\* ------------------------------------------------------------------------
NoCRLF(s) == \A k \in 1..Len(s) : ~cutCRFunc(s[k])

IsPrefixOf(p, s) == Len(p) <= Len(s) /\ SubSeq(s, 1, Len(p)) = p

NotCRLF(c) == ~cutCRFunc(c)

\* the line without its tag segment: <<>> when none can be cut off
GrammarAfterTags(r) ==
    IF Len(r) > 0 /\ r[1] = prefixTag
    THEN IF IndexByte(r, eventSpace) < 2 THEN <<>>
         ELSE SliceFrom(r, IndexByte(r, eventSpace) + 1)
    ELSE r

\* the line without its source prefix
GrammarAfterSource(r) ==
    IF Len(r) > 0 /\ r[1] = messagePrefix
    THEN IF IndexByte(r, eventSpace) < 2 THEN <<>>
         ELSE SliceFrom(r, IndexByte(r, eventSpace) + 1)
    ELSE r

\* the command token of a line that starts with its command
GrammarCommand(r) ==
    IF IndexByte(r, eventSpace) < 0 THEN r ELSE Slice(r, 0, IndexByte(r, eventSpace))

\* whether text follows the command token, and that text
GrammarHasBody(r) == IndexByte(r, eventSpace) >= 0
GrammarBody(r) == SliceFrom(r, IndexByte(r, eventSpace) + 1)

\* 0-based index of the trailing marker of the text after the command: the
\* first ':' that starts the text or follows a space; -1 when there is none
IsMarkerAt(b, k) == b[k + 1] = messagePrefix /\ (k = 0 \/ b[k] = eventSpace)
GrammarMarker(b) ==
    IF \E k \in 0..(Len(b) - 1) : IsMarkerAt(b, k)
    THEN CHOOSE k \in 0..(Len(b) - 1) :
             IsMarkerAt(b, k) /\ \A m \in 0..(k - 1) : ~IsMarkerAt(b, m)
    ELSE -1

GrammarParams(b) ==
    IF GrammarMarker(b) < 0 THEN Split(b, eventSpace)
    ELSE IF GrammarMarker(b) > 0 THEN Split(Slice(b, 0, GrammarMarker(b) - 1), eventSpace)
    ELSE <<>>

GrammarTrailing(b) ==
    IF GrammarMarker(b) < 0 THEN <<>> ELSE SliceFrom(b, GrammarMarker(b) + 1)

\* the line after tags and source, starting at the command
GrammarFromCommand(line) == GrammarAfterSource(GrammarAfterTags(TrimFunc(line)))

IsUpperCase(s) == s = ToUpper(s)

ValidParam(p) ==
    /\ Len(p) > 0
    /\ p[1] # messagePrefix
    /\ \A k \in 1..Len(p) : p[k] # eventSpace /\ ~cutCRFunc(p[k])

\* an Event "built with valid fields"
ValidFields(e) ==
    /\ Len(e.Command) > 0 /\ IsUpperCase(e.Command) /\ NoCRLF(e.Command)
    /\ \A k \in 1..Len(e.Params) : ValidParam(e.Params[k])
    /\ NoCRLF(e.Trailing)
    /\ Len(e.Source) > 0 =>
          /\ Len(e.Source[1].Name) > 0
          /\ NoCRLF(SourceWriteTo(e.Source[1]))

SameSource(a, b) == a.Source = b.Source

\* ------------------------------------------------------------------------
\* Properties of the codec
\* ------------------------------------------------------------------------
LineCmdAColon == <<"C", "M", "D", " ", "a", " ", ":">>
LineCmdA == <<"C", "M", "D", " ", "a">>
LineEmbeddedColon ==
    <<"C", "M", "D", " ", "a", ":", "b", " ", ":",
      "h", "e", "l", "l", "o", " ", "w", "o", "r", "l", "d">>

\* C1: an untagged Event with valid fields (here: one that has at least one
\* parameter and sets EmptyTrailing only with an empty Trailing) whose line
\* fits 510 octets parses back from its serialization to the same Command,
\* Params, Trailing, EmptyTrailing and Source.
C1_RoundTripUntagged ==
    (/\ pc = "roundtrip"
     /\ Len(ev.Tags) = 0
     /\ ValidFields(ev)
     /\ Len(ev.Params) > 0
     /\ (ev.EmptyTrailing => Len(ev.Trailing) = 0)
     /\ Len(Compose(ev, order)) <= maxLength)
    => /\ parsed.status = "ok"
       /\ parsed.e.Command = ev.Command
       /\ parsed.e.Params = ev.Params
       /\ parsed.e.Trailing = ev.Trailing
       /\ parsed.e.EmptyTrailing = ev.EmptyTrailing
       /\ SameSource(parsed.e, ev)

\* C2: "CMD a :" parses to Params=[a], Trailing="", EmptyTrailing=true and
\* serializes back with the " :" marker; "CMD a" parses to EmptyTrailing=false
\* and serializes without a marker; and in general ParseEvent sets
\* EmptyTrailing exactly when the text after the command has a trailing marker
\* with nothing after it.
C2_EmptyTrailingDistinction ==
    /\ (pc \in {"parsed", "reserialized"} /\ raw = LineCmdAColon) =>
          /\ parsed.status = "ok"
          /\ parsed.e.Params = <<<<"a">>>>
          /\ parsed.e.Trailing = <<>>
          /\ parsed.e.EmptyTrailing
          /\ (pc = "reserialized" => out = [status |-> "ok", out |-> LineCmdAColon])
    /\ (pc \in {"parsed", "reserialized"} /\ raw = LineCmdA) =>
          /\ parsed.status = "ok"
          /\ parsed.e.Params = <<<<"a">>>>
          /\ parsed.e.Trailing = <<>>
          /\ ~parsed.e.EmptyTrailing
          /\ (pc = "reserialized" => out = [status |-> "ok", out |-> LineCmdA])
    /\ (pc = "parsed" /\ parsed.status = "ok") =>
          (parsed.e.EmptyTrailing <=>
              /\ GrammarHasBody(GrammarFromCommand(raw))
              /\ GrammarMarker(GrammarBody(GrammarFromCommand(raw))) >= 0
              /\ GrammarTrailing(GrammarBody(GrammarFromCommand(raw))) = <<>>)

\* C3: ParseEvent never panics, and returns nil for every line that is
\* shorter than 2 octets once CR/LF are trimmed.
C3_ParseEventTotal ==
    pc = "parsed" =>
        /\ parsed.status \in {"ok", "nil"}
        /\ (Len(TrimFunc(raw)) < 2 => parsed.status = "nil")

\* a line "@<tags> <rest>" with a non-empty rest that does not start with ':'
IsTaggedNoSource(line) ==
    LET r == TrimFunc(line) IN
    /\ Len(r) >= 2
    /\ r[1] = prefixTag
    /\ IndexByte(r, eventSpace) >= 2
    /\ Len(GrammarAfterTags(r)) > 0
    /\ GrammarAfterTags(r)[1] # messagePrefix

\* C4: for a tagged line without source prefix ParseEvent returns an event
\* whose Tags are ParseTags of the tag segment, whose Command is the
\* upper-cased first token after the tag segment, and whose Params/Trailing
\* are parsed from the text after that token.
C4_TaggedLineCommand ==
    (pc = "parsed" /\ IsTaggedNoSource(raw)) =>
        LET r == TrimFunc(raw)
            rest == GrammarAfterTags(r)
            body == ParseEventParams(ZeroEvent, rest, IndexByte(rest, eventSpace) + 1).e
        IN  /\ parsed.status = "ok"
            /\ parsed.e.Tags = <<ParseTags(Slice(r, 1, IndexByte(r, eventSpace)))>>
            /\ parsed.e.Command = ToUpper(GrammarCommand(rest))
            /\ GrammarHasBody(rest) =>
                  /\ parsed.e.Params = body.Params
                  /\ parsed.e.Trailing = body.Trailing
            /\ ~GrammarHasBody(rest) =>
                  /\ parsed.e.Params = <<>>
                  /\ parsed.e.Trailing = <<>>

HasTag(e) == Len(e.Tags) > 0 /\ DOMAIN e.Tags[1] # {}

\* C5: an Event with at least one tag serializes to '@', the tag segment, a
\* space and the rest of the message, and ParseEvent of that line recovers
\* the same tag map and the same Command.
C5_TaggedRoundTrip ==
    (HasTag(ev) /\ ValidFields(ev) /\ Len(Compose(ev, order)) <= maxLength) =>
        /\ (pc \in {"serialized", "roundtrip"}) =>
              /\ out.status = "ok"
              /\ Len(out.out) > 0
              /\ out.out[1] = prefixTag
        /\ pc = "roundtrip" =>
              /\ parsed.status = "ok"
              /\ parsed.e.Tags = ev.Tags
              /\ parsed.e.Command = ev.Command

\* C6: in an untagged line the trailing marker is the first ':' that starts
\* the text after the command or follows a space; an embedded ':' does not
\* stop the scan, so "CMD a:b :hello world" has Params=[a:b] and
\* Trailing="hello world".
C6_TrailingMarker ==
    /\ (pc = "parsed" /\ raw = LineEmbeddedColon) =>
          /\ parsed.status = "ok"
          /\ parsed.e.Params = <<<<"a", ":", "b">>>>
          /\ parsed.e.Trailing = <<"h", "e", "l", "l", "o", " ", "w", "o", "r", "l", "d">>
    /\ (/\ pc = "parsed"
        /\ parsed.status = "ok"
        /\ Len(parsed.e.Tags) = 0
        /\ GrammarHasBody(GrammarFromCommand(raw))) =>
          /\ parsed.e.Params = GrammarParams(GrammarBody(GrammarFromCommand(raw)))
          /\ parsed.e.Trailing = GrammarTrailing(GrammarBody(GrammarFromCommand(raw)))

\* C7: Event.Bytes returns for every Event, with at most 510 octets when Tags
\* is nil and at most 510+511+1 when it is not, and what it returns is a
\* prefix of the composed line without its CR/LF.
C7_BytesLengthCap ==
    pc \in {"serialized", "reserialized"} =>
        /\ out.status = "ok"
        /\ Len(ev.Tags) = 0 => Len(out.out) <= maxLength
        /\ Len(ev.Tags) > 0 => Len(out.out) <= maxLength + maxTagLength + 1
        /\ IsPrefixOf(out.out, SelectSeq(Compose(ev, order), NotCRLF))

\* C8: whatever Event.Bytes returns holds no CR and no LF, and is the
\* length-limited composed line with exactly those octets left out.
C8_InjectionGuard ==
    (pc \in {"serialized", "reserialized"} /\ out.status = "ok") =>
        /\ NoCRLF(out.out)
        /\ out.out = SelectSeq(Limit(ev, Compose(ev, order)).out, NotCRLF)

\* C8 witness: Bytes has returned for an event whose line held a CR directly
\* followed by an LF.
C8_Witness ==
    /\ pc = "serialized"
    /\ out.status = "ok"
    /\ \E k \in 1..(Len(Compose(ev, order)) - 1) :
          Compose(ev, order)[k] = CR /\ Compose(ev, order)[k + 1] = LF

\* ------------------------------------------------------------------------
\* Properties of Event.Copy
\* ------------------------------------------------------------------------
\* what an Event struct shows of its Source, Params and Tags
View(e) ==
    [Source |-> IF e.Source = NilAddr THEN <<>> ELSE <<srcHeap[e.Source]>>,
     Params |-> IF e.Params.arr = NilAddr THEN <<>>
                ELSE SubSeq(arrHeap[e.Params.arr], 1, e.Params.len),
     Tags |-> IF e.Tags = NilAddr THEN <<>> ELSE <<mapHeap[e.Tags]>>]

WriteThrough(who) ==
    \/ \E f \in {"Name", "Ident", "Host"}, v \in WrittenValues : WriteSource(who, f, v)
    \/ \E i \in 0..1, v \in WrittenValues : WriteParam(who, i, v)
    \/ \E k \in WrittenKeys, v \in WrittenValues : WriteTag(who, k, v)

\* C9: after c = e.Copy() no write through c to its Source fields, to an
\* element of its Params or to its Tags changes what e shows, nor the other
\* way round.
C9_CopyIsolation ==
    [][/\ WriteThrough("copy") => View(orig)' = View(orig)
       /\ WriteThrough("orig") => View(copy)' = View(copy)]_vars

\* ------------------------------------------------------------------------
\* Properties of the built-in handlers
\* ------------------------------------------------------------------------
MalformedWho(e) ==
    \/ e.Command = RPL_WHOREPLY /\ Len(e.Params) < 6
    \/ e.Command = RPL_WHOSPCRPL /\ (Len(e.Params) # 7 \/ e.Params[2] # "1")

\* C10: handleWHO on a WHO reply with fewer than 6 parameters, or on a WHOX
\* reply that has not exactly 7 parameters or whose query tag is not "1",
\* returns without panic and leaves users and channels as they were.
C10_MalformedWhoIgnored ==
    [][\A e \in WhoReplies \cup WhoxReplies :
          (MalformedWho(e) /\ handleWHO(e)) => (~crashed' /\ store' = store)]_vars

\* the channels nick n is a member of
MemberOf(n) == { c \in DOMAIN channels : n \in channels[c].Users }

\* `handled` is a PART of nick n from channel ch, dispatched right after the
\* JOIN of n to ch, and n is not the client
PartAfterJoin(n, ch) ==
    /\ handled.Command = "PART"
    /\ handled.Source # <<>>
    /\ handled.Source[1].Name = n
    /\ Len(handled.Params) >= 1
    /\ handled.Params[1] = ch
    /\ joined = <<n, ch>>
    /\ n # GetNick

\* C12: after JOIN of a nick A that is not the client to a channel and then
\* PART of A from that channel, A is not a member of the channel, and when A
\* is a member of no other channel A has no entry in the user table.
C12_JoinThenPart ==
    \A n \in {"A", ConfigNick}, ch \in {"#x", "#y", "bad"} :
        PartAfterJoin(n, ch) =>
            /\ ch \notin MemberOf(n)
            /\ (MemberOf(n) \ {ch} = {}) => n \notin DOMAIN users

\* C12 witness: A has joined #x, where the client is as well, and has left
\* it again: the channel is still tracked and A is gone.
C12_Witness ==
    /\ PartAfterJoin("A", "#x")
    /\ "#x" \in DOMAIN channels
    /\ GetNick \in channels["#x"].Users
    /\ "A" \notin DOMAIN users

C14_NickCollision ==
    [][\A e \in CollisionEvents :
          (resolver = "nil" /\ nickCollisionHandler(e)) =>
              sent' = <<OutEvent("NICK", <<e.Params[2] \o "_">>)>>]_vars

\* ------------------------------------------------------------------------
\* Properties of the lock and of the welcome goroutine
\* ------------------------------------------------------------------------
\* the step is taken by the thread that holds the lock
HolderSteps ==
    \/ mu = "intake" /\ dpc' # dpc
    \/ mu = "reader" /\ rpc' # rpc

\* C11: whenever a step of a built-in handler changes a field of the State
\* Store (own nick, ident, host, user records, channel records, motd), the
\* thread that takes the step holds the store's lock; no write happens
\* while the lock is free or held by another thread.
C11_WritesUnderLock ==
    [][stateFields' # stateFields => HolderSteps]_vars

\* goroutine i goes to sleep in this step
GoesToSleep(i) == i \in DOMAIN wpc /\ wpc[i] # "sleep" /\ wpc'[i] = "sleep"

\* C15: the RPL_WELCOME handler returns to the intake at once, leaving a
\* goroutine behind, and the intake can take the next event while that one
\* sleeps; the goroutine has recorded the nick of Params[0] when it goes to
\* sleep; it has dispatched CONNECTED once when it is done and never
\* before; and every goroutine started dispatches CONNECTED in the end.
C15_WelcomeBootstrap ==
    /\ [][\A e \in LockWelcomes : WelcomeDispatch(e) =>
             dpc' = "idle" /\ wpc'[Len(wpc')] = "start"]_vars
    /\ [](\A i \in DOMAIN wpc : (wpc[i] = "sleep" /\ dpc = "idle") =>
             ENABLED (\E e \in LockJoins : JoinEnter(e)))
    /\ [][\A i \in Goroutines : GoesToSleep(i) =>
             (Len(wev[i].Params) > 0 => ownNick' = wev[i].Params[1])]_vars
    /\ [](\A i \in DOMAIN wpc : connected[i] = IF wpc[i] = "done" THEN 1 ELSE 0)
    /\ \A i \in Goroutines :
          (i \in DOMAIN wpc) ~> (i \in DOMAIN wpc /\ connected[i] = 1)

\* C15 witness: the server's nick is recorded, the goroutine sleeps, and
\* the intake is inside the handler of a JOIN that came after the welcome.
C15_Witness ==
    \E i \in DOMAIN wpc :
        /\ wpc[i] = "sleep"
        /\ Len(wev[i].Params) > 0
        /\ ownNick = wev[i].Params[1]
        /\ handled.Command = "JOIN"
        /\ dpc # "idle"

\* ------------------------------------------------------------------------
\* Properties of the Tags map
\* ------------------------------------------------------------------------
\* C16: decoding the encoding of a value gives the value back, so that Get
\* right after a successful Set of the same key returns (value, true); and
\* no stored value holds a raw ';', space, CR or LF.
C16_EscapeRoundTrip ==
    /\ \A k \in DOMAIN tags : \A i \in 1..Len(tags[k]) :
           tags[k][i] \notin {";", " ", CR, LF}
    /\ (call.op = "Set" /\ call.err = "nil") =>
           Replace(Replace(call.value, tagEncode), tagDecode) = call.value
    /\ (call.op = "Get" /\ call.set # <<>>) =>
           (call.success /\ call.tag = call.set[1])

\* C16 witness: Set was given a backslash followed by 's', which is not an
\* escape but reads like one, and Get has returned it.
C16_Witness ==
    /\ call.op = "Get"
    /\ call.set = << <<BS, "s">> >>
    /\ call.tag = <<BS, "s">>
    /\ tags[call.key] = <<BS, BS, "s">>

\* the octets of tag k of map t on the wire: its name, and '=' and its value
\* when it has one
TagOctets(t, k) == k \o (IF Len(t[k]) > 0 THEN <<prefixTagValue>> \o t[k] ELSE <<>>)

\* the length of the tag segment that holds every tag of t, with one ';'
\* between two tags and neither '@' nor the closing space counted
RECURSIVE SegmentLen(_)
SegmentLen(t) ==
    IF DOMAIN t = {} THEN 0
    ELSE LET k == CHOOSE k \in DOMAIN t : TRUE
             rest == [x \in DOMAIN t \ {k} |-> t[x]]
         IN  Len(TagOctets(t, k)) + (IF DOMAIN rest = {} THEN 0 ELSE 1 + SegmentLen(rest))

\* b is made of whole tags of t, each closed by ';'
WholeTags(b, t) ==
    \/ b = <<>>
    \/ LET parts == Split(b, tagSeparator) IN
        /\ parts[Len(parts)] = <<>>
        /\ \A i \in 1..(Len(parts) - 1) : \E k \in DOMAIN t : parts[i] = TagOctets(t, k)

\* C17: Set returns an error for an empty key and for a key with an octet
\* outside [A-Za-z0-9/_.-]; whenever it returns an error the map is as it
\* was; it returns an error whenever the map, within the ceiling before,
\* would with the encoded pair serialize to more than 511 octets; and
\* whatever the map, Bytes returns at most 511 octets, all of them whole
\* tags.
C17_TagCeiling ==
    /\ [][\A k \in CeilingKeys, v \in CeilingValues, o \in Orders(tags) :
             CallTagsSet(k, v, o) =>
                 /\ ~validTag(k) => call'.err # "nil"
                 /\ call'.err # "nil" => tags' = tags
                 /\ (/\ validTag(k)
                     /\ SegmentLen(tags) <= maxTagLength
                     /\ SegmentLen(MapSet(tags, k, Replace(v, tagEncode))) > maxTagLength)
                        => call'.err # "nil"]_vars
    /\ [](call.op = "Bytes" => (Len(call.out) <= maxTagLength /\ WholeTags(call.out, tags)))

\* ------------------------------------------------------------------------
\* Sources
\* ------------------------------------------------------------------------
\* a name, ident or host of the claim: not empty, no '!' and no '@'
Clean(s) == Len(s) > 0 /\ \A k \in 1..Len(s) : s[k] \notin {prefixIdent, prefixHost}

\* the four shapes of a source string, told by where the separators stand
ShapeHostmask(r, i, j) ==
    /\ i < j /\ r[i] = prefixIdent /\ r[j] = prefixHost
    /\ Clean(SubSeq(r, 1, i - 1)) /\ Clean(SubSeq(r, i + 1, j - 1))
    /\ Clean(SubSeq(r, j + 1, Len(r)))

ShapeNameHost(r, j) ==
    r[j] = prefixHost /\ Clean(SubSeq(r, 1, j - 1)) /\ Clean(SubSeq(r, j + 1, Len(r)))

ShapeNameIdent(r, i) ==
    r[i] = prefixIdent /\ Clean(SubSeq(r, 1, i - 1)) /\ Clean(SubSeq(r, i + 1, Len(r)))

IsShapeHostmask(r) == \E i, j \in 1..Len(r) : ShapeHostmask(r, i, j)

InShape(r) ==
    \/ IsShapeHostmask(r)
    \/ \E j \in 1..Len(r) : ShapeNameHost(r, j)
    \/ \E i \in 1..Len(r) : ShapeNameIdent(r, i)
    \/ Clean(r)

\* a Source of one of the four shapes
SourceInShape(s) ==
    /\ Clean(s.Name)
    /\ s.Ident = <<>> \/ Clean(s.Ident)
    /\ s.Host = <<>> \/ Clean(s.Host)

\* C18: ParseSource never fails; "n!u@h", "n@h", "n!u" and "n" with n, u, h
\* not empty and free of '!' and '@' parse to {n,u,h}, {n,"",h}, {n,u,""}
\* and {n,"",""}; among those IsHostmask is true of the first shape only
\* and IsServer of the last only; and parsing the String() of a Source of
\* one of the four shapes gives the Source back.
C18_SourceParsing ==
    /\ call.op = "ParseSource" =>
          /\ call.status = "ok"
          /\ \A i, j \in 1..Len(call.raw) :
                /\ ShapeHostmask(call.raw, i, j) =>
                      call.src = MkSource(SubSeq(call.raw, 1, i - 1),
                                          SubSeq(call.raw, i + 1, j - 1),
                                          SubSeq(call.raw, j + 1, Len(call.raw)))
                /\ ShapeNameHost(call.raw, j) =>
                      call.src = MkSource(SubSeq(call.raw, 1, j - 1), <<>>,
                                          SubSeq(call.raw, j + 1, Len(call.raw)))
                /\ ShapeNameIdent(call.raw, i) =>
                      call.src = MkSource(SubSeq(call.raw, 1, i - 1),
                                          SubSeq(call.raw, i + 1, Len(call.raw)), <<>>)
          /\ Clean(call.raw) => call.src = MkSource(call.raw, <<>>, <<>>)
          /\ (call.of # <<>> /\ SourceInShape(call.of[1])) => call.src = call.of[1]
    /\ (call.op = "IsHostmask" /\ InShape(call.raw)) => (call.is <=> IsShapeHostmask(call.raw))
    /\ (call.op = "IsServer" /\ InShape(call.raw)) => (call.is <=> Clean(call.raw))

\* C18 witness: a full hostmask came out of String() and was parsed back
\* to its Source
C18_Witness ==
    /\ call.op = "ParseSource"
    /\ call.of = <<MkSource(<<"n">>, <<"u", "h">>, <<"n">>)>>
    /\ call.src = call.of[1]
    /\ IsHostmask(call.src)

\* ------------------------------------------------------------------------
\* Event.Len
\* ------------------------------------------------------------------------
\* the line Bytes composes is within the length limit and has no CR or LF
PlainLine(b) == Len(b) <= maxLength /\ \A k \in 1..Len(b) : ~cutCRFunc(b[k])

\* C19: for an Event whose composed line is within the length limit and
\* has no CR or LF, Len() is the number of octets Bytes() returns, whatever
\* the Tags (absent, present and empty, not empty), the Source, the Params
\* and the Trailing.
C19_LenExact ==
    (/\ call.op = "EventBytes"
     /\ PlainLine(Compose(call.e, call.order))
     /\ call.bytes.status = "ok")
        => call.len = Len(call.bytes.out)

\* ------------------------------------------------------------------------
\* The tag segment and ParseTags
\* ------------------------------------------------------------------------
\* a map of at least one entry whose segment is within the ceiling
FitsCeiling(t) == Cardinality(DOMAIN t) >= 1 /\ SegmentLen(t) <= maxTagLength

\* C20: for a map of n >= 1 entries that fits the ceiling, String() is the
\* entries, name or name=value, with n - 1 separators between them and none
\* behind the last, and ParseTags of it is the map again, with no entry
\* more.
C20_SegmentRoundTrip ==
    /\ []((call.op = "Bytes" /\ FitsCeiling(tags)) =>
             (Len(call.out) = SegmentLen(tags) /\ WholeTags(call.out \o <<tagSeparator>>, tags)))
    /\ [][(call.op = "Bytes" /\ FitsCeiling(tags) /\ CallParseTags(call.out))
             => tags' = tags]_vars

\* ------------------------------------------------------------------------
\* JOIN and what the client sends after it
\* ------------------------------------------------------------------------
\* the outbound events are exactly a WHO for target followed, when mode is
\* set, by a MODE for it
Probes(outbound, target, mode) ==
    /\ Len(outbound) = (IF mode THEN 2 ELSE 1)
    /\ outbound[1].Command = "WHO" /\ outbound[1].Params[1] = target
    /\ mode => (outbound[2].Command = "MODE" /\ outbound[2].Params = <<target>>)

\* what a JOIN with a source and a parameter is followed by
JoinFollowUp(e) ==
    IF e.Source[1].Name = ownNick
    THEN /\ Probes(sent', e.Params[1], TRUE)
         /\ ownIdent' = e.Source[1].Ident
         /\ ownHost' = e.Source[1].Host
    ELSE /\ Probes(sent', e.Source[1].Name, FALSE)
         /\ UNCHANGED <<ownIdent, ownHost>>

\* C22 as stated: a JOIN with a source and at least one parameter is
\* followed by WHO and MODE for the channel and the client's ident and host
\* taken from the source when the source is the client, and by one WHO for
\* the joining nick and no change of ident and host otherwise; a JOIN
\* without source or without parameters sends nothing and changes nothing.
C22_JoinProbes ==
    [][\A e \in JoinEvents : handleJOIN(e) =>
          IF e.Source # <<>> /\ Len(e.Params) >= 1
          THEN JoinFollowUp(e)
          ELSE sent' = <<>> /\ UNCHANGED stateFields]_vars

\* C22 amended: the same for a JOIN whose channel name and nick the store
\* accepts (createUserIfNotExists returns a user); a JOIN it does not
\* accept sends nothing and changes nothing, as one without source or
\* parameters.
C22_JoinProbesAccepted ==
    [][\A e \in JoinEvents : handleJOIN(e) =>
          IF /\ e.Source # <<>> /\ Len(e.Params) >= 1
             /\ createUserIfNotExists(users, channels, e.Params[1], e.Source[1].Name).ok
          THEN JoinFollowUp(e)
          ELSE sent' = <<>> /\ UNCHANGED stateFields]_vars

\* C22 witness: the client's own JOIN of #x has been handled, WHO and MODE
\* are out and the ident and host are the source's
C22_Witness ==
    /\ handled.Command = "JOIN"
    /\ handled.Source = From(ConfigNick)
    /\ sent = <<OutEvent("WHO", <<"#x", "%tacuhnr,1">>), OutEvent("MODE", <<"#x">>)>>
    /\ ownIdent = "u" /\ ownHost = "h"
    /\ "#x" \in DOMAIN channels

\* ------------------------------------------------------------------------
\* WHO replies and the recorded account
\* ------------------------------------------------------------------------
\* a WHO reply that names a user without giving an account: a plain reply,
\* or a WHOX reply to the client's own query with the account "0"
WithoutAccount(e) ==
    \/ e.Command = RPL_WHOREPLY /\ Len(e.Params) >= 6
    \/ /\ e.Command = RPL_WHOSPCRPL /\ Len(e.Params) = 7
       /\ e.Params[2] = "1" /\ e.Params[7] = "0"

\* the fields of such a reply, by their place in it
ReplyChannel(e) == IF e.Command = RPL_WHOREPLY THEN e.Params[2] ELSE e.Params[3]
ReplyIdent(e) == IF e.Command = RPL_WHOREPLY THEN e.Params[3] ELSE e.Params[4]
ReplyHost(e) == IF e.Command = RPL_WHOREPLY THEN e.Params[4] ELSE e.Params[5]
ReplyNick(e) == e.Params[6]

\* C26: a plain WHO reply, or a WHOX reply with the account "0", for a
\* user whose account is recorded leaves the account as it was, and sets
\* the user's ident, host and real name from the reply.
C26_AccountKept ==
    [][\A e \in WhoReplies \cup WhoxReplies :
          (/\ handleWHO(e)
           /\ WithoutAccount(e)
           /\ ReplyChannel(e) \in ValidChannels
           /\ ReplyNick(e) \in DOMAIN users
           /\ users[ReplyNick(e)].Account # "")
              => /\ ReplyNick(e) \in DOMAIN users'
                 /\ users'[ReplyNick(e)].Account = users[ReplyNick(e)].Account
                 /\ users'[ReplyNick(e)].Ident = ReplyIdent(e)
                 /\ users'[ReplyNick(e)].Host = ReplyHost(e)
                 /\ users'[ReplyNick(e)].Name = e.Trailing]_vars

\* ------------------------------------------------------------------------
\* The message of the day
\* ------------------------------------------------------------------------
\* the texts of the MOTD lines handled since the last RPL_MOTDSTART
LinesSinceStart == [i \in 1..(Len(motdLog) - 1) |-> motdLog[i + 1].Trailing]

\* the lines ls joined by one newline between consecutive lines, as the
\* tokens motd is kept in: a newline is a token, an empty line is none
RECURSIVE JoinedLines(_, _)
JoinedLines(ls, n) ==
    IF n = 0 THEN <<>>
    ELSE JoinedLines(ls, n - 1)
         \o (IF n > 1 THEN <<"\n">> ELSE <<>>)
         \o (IF ls[n] # "" THEN <<ls[n]>> ELSE <<>>)

\* C24: after RPL_MOTDSTART and the lines L1, ..., Ln (n >= 1, empty ones
\* among them) the stored motd is L1, ..., Ln with one newline between
\* consecutive lines; and RPL_MOTDSTART leaves the motd empty whatever it
\* was.
C24_MotdAccumulation ==
    /\ [](Len(motdLog) >= 2 => motd = JoinedLines(LinesSinceStart, Len(LinesSinceStart)))
    /\ [][\A e \in MotdEvents : (handleMOTD(e) /\ e.Command = RPL_MOTDSTART) => motd' = <<>>]_vars

\* ------------------------------------------------------------------------
\* NAMES replies
\* ------------------------------------------------------------------------
\* the entries of the nick list of e
ListEntries(e) == Split(e.Trailing, " ")

\* the nick of a list entry without userhost data: what follows the mode
\* prefixes, when that has no '!' and no '@'
PlainNick(entry) ==
    LET rest == parseUserPrefix(entry).nick IN
    IF Contains(rest, prefixHost) \/ Contains(rest, prefixIdent) THEN "" ELSE Str(rest)

\* the nick a list entry names
EntryNick(entry) ==
    LET rest == parseUserPrefix(entry).nick IN
    IF Contains(rest, prefixHost) THEN Str(ParseSource(rest).Name) ELSE Str(rest)

\* the user record of nick n before the reply, a new one when there is none
Recorded(n) == IF n \in DOMAIN users THEN users[n] ELSE NewUser

\* C25: a member whose entry in the nick list has no userhost data has,
\* after the reply, the ident and host it had before (none when it was not
\* known) when no entry of the list gives userhost data for it, whatever
\* the entries of the other members carry.
C25_NamesIsolation ==
    [][\A e \in NamesEvents :
          handleNAMES(e) =>
              \A i \in 1..Len(ListEntries(e)) :
                  LET n == PlainNick(ListEntries(e)[i]) IN
                  (/\ n \in DOMAIN users'
                   /\ \A j \in 1..Len(ListEntries(e)) : EntryNick(ListEntries(e)[j]) = n
                                                             => PlainNick(ListEntries(e)[j]) = n)
                      => /\ users'[n].Ident = Recorded(n).Ident
                         /\ users'[n].Host = Recorded(n).Host]_vars

\* ------------------------------------------------------------------------
\* Who is in which channel
\* ------------------------------------------------------------------------
\* nick n is in channel c's members exactly when c is in n's channel set
MembershipSymmetric ==
    /\ \A c \in DOMAIN channels : channels[c].Users \subseteq DOMAIN users
    /\ \A n \in DOMAIN users : users[n].Channels \subseteq DOMAIN channels
    /\ \A n \in DOMAIN users, c \in DOMAIN channels :
           n \in channels[c].Users <=> c \in users[n].Channels

\* every user but the client is in a tracked channel
NoOrphan == \A n \in DOMAIN users \ {GetNick} : users[n].Channels # {}

\* nick n is in no channel's members after the step
GoneFromChannels(n) == \A c \in DOMAIN channels' : n \notin channels'[c].Users

\* channel ch is in no user's channel set after the step
GoneFromUsers(ch) == \A u \in DOMAIN users' : ch \notin users'[u].Channels

\* C23: after any sequence of JOIN, PART, KICK, QUIT, NICK, WHO-reply and
\* NAMES-reply events membership is symmetric and every user but the client
\* is a member of a tracked channel; PART, KICK and QUIT of a user that is
\* not the client take that user out of every channel's members, PART and
\* KICK of the client take the channel out of every user's channel set.
C23_Membership ==
    /\ [](MembershipSymmetric /\ NoOrphan)
    /\ [][\A e \in MemberParts :
             (handlePART(e) /\ e.Source # <<>>) =>
                 IF e.Source[1].Name = GetNick THEN GoneFromUsers(e.Params[1])
                 ELSE GoneFromChannels(e.Source[1].Name)]_vars
    /\ [][\A e \in MemberKicks :
             (handleKICK(e) /\ Len(e.Params) >= 2) =>
                 IF e.Params[2] = GetNick THEN GoneFromUsers(e.Params[1])
                 ELSE GoneFromChannels(e.Params[2])]_vars
    /\ [][\A e \in MemberQuits :
             (handleQUIT(e) /\ e.Source # <<>> /\ e.Source[1].Name # GetNick) =>
                 GoneFromChannels(e.Source[1].Name)]_vars

\* C23 witness: A, who is not the client, has joined #y and quit; A was in
\* #x as well, where the client still is, and is in no channel any more.
C23_Witness ==
    /\ handled.Command = "QUIT"
    /\ joined = <<"A", "#y">>
    /\ GetNick # "A"
    /\ "A" \notin DOMAIN users
    /\ DOMAIN channels = {"#x", "#y"}
    /\ channels["#y"].Users = {}
    /\ GetNick \in channels["#x"].Users

\* ------------------------------------------------------------------------
\* The lock and the built-in handlers
\* ------------------------------------------------------------------------
\* the intake is at a statement that sends an outbound event
AtSend == dpc \in {"join_self_send", "join_other_send", "ping_send", "collide_send"}

\* the intake is at the Lock() of a handler
AtLock == \E h \in LockingHandlers : dpc = h \o "_lock"

\* the intake has left the handler: by a return or by a panic
HandlerLeft == dpc \in {"idle", "panicked"}

\* an outbound event is sent in this step
Sends == sent' # sent /\ sent' # <<>>

\* C21: a built-in handler does not hold the store's lock at a statement
\* that sends an outbound event, nor in the step that sends it, nor once it
\* has returned, on whatever path; so the lock is free whenever no handler
\* and no accessor is running, and the next one can take it.
C21_LockDiscipline ==
    /\ [](AtSend => mu # "intake")
    /\ [][Sends => (mu # "intake" /\ mu' # "intake")]_vars
    /\ [](HandlerLeft => mu # "intake")
    /\ []((HandlerLeft /\ rpc = "idle") => mu = "free")
    /\ []((HandlerLeft /\ rpc = "idle") => ENABLED ReaderLock)
    /\ []((AtLock /\ rpc = "idle") => ENABLED HandlerLock)

\* C21 witness: handleTOPIC has returned for a name that is no channel's,
\* on the path that unlocks before the return, after the client's JOIN was
\* answered with WHO and MODE; the lock is free.
C21_Witness ==
    /\ dpc = "idle"
    /\ handled.Command = "TOPIC"
    /\ handled.Params = <<"bad">>
    /\ mu = "free"
    /\ ownHost = "h"
    /\ "A" \in DOMAIN users
    /\ "SERVER" \in DOMAIN serverOptions

====
